---- MODULE Spec2Model ----
(***************************************************************************)
(* Adaptive scoring and configuration subsystem of the OCR classifier.     *)
(*                                                                         *)
(* Units.  Python floats are held in fixed point:                          *)
(*   scores and thresholds   in hundredths  (classify_image rounds the     *)
(*                           scores it stores to 2 places, and             *)
(*                           _recalculate_thresholds rounds to 2 places),  *)
(*   weight leaves           in thousandths,                               *)
(*   learning factors        in hundredths (0.05 is 5, -0.1 is -10),       *)
(*   confidence              in 1/12000 (the common denominator of the     *)
(*                           divisors 10, 15 and 8 over hundredths).       *)
(***************************************************************************)
EXTENDS Integers, Sequences, FiniteSets, TLC

VARIABLES
    scores,             \* AR, TP, DOC, PHOTO of the last classified image
    prediction,         \* predicted class and confidence of the last classification
    THRESHOLDS,         \* ClassificationConfig.THRESHOLDS
    WEIGHTS,            \* ClassificationConfig.WEIGHTS
    LEARNING_CONFIG,    \* ClassificationConfig.LEARNING_CONFIG
    feedback_history,   \* AdaptiveScoringEngine.feedback_history
    feedback_count,     \* AdaptiveScoringEngine.feedback_count
    weights_version,    \* AdaptiveScoringEngine.weights_version
    feedback_result,    \* what the last process_feedback call returned and did
    events_total,       \* feedback events processed since start (bounds the run)
    lock,               \* ConfigurationManager._lock: "free" or "held"
    runtime_overrides,  \* ConfigurationManager._runtime_overrides
    config_file,        \* config.json
    backup_file,        \* config.json.backup
    audit_log,          \* config_audit.jsonl, one action name per record
    store_call,         \* the last call made to the ConfigurationManager or its API
    ci4_call,           \* the call to the record store's model-weights endpoints
                        \* made by the last feedback event (none when it made
                        \* none) or by an API request after it
    tasks               \* the /feedback requests in flight on the event loop

vars == <<scores, prediction, THRESHOLDS, WEIGHTS, LEARNING_CONFIG,
          feedback_history, feedback_count, weights_version, feedback_result,
          events_total, lock, runtime_overrides, config_file, backup_file,
          audit_log, store_call, ci4_call, tasks>>

decide_vars == <<scores, prediction>>
singleton_vars == <<THRESHOLDS, WEIGHTS, LEARNING_CONFIG>>
engine_vars == <<feedback_history, feedback_count, weights_version,
                 feedback_result, events_total>>
store_vars == <<lock, runtime_overrides, config_file, backup_file, audit_log,
                store_call>>
call_vars == <<ci4_call, tasks>>

\* ------------------------------------------------------------------ bounds

\* Feedback events processed in one run.
MaxFeedback == 6

\* Records appended to the audit log in one run.
MaxAudit == 3

\* The reload of a run comes after at most this many feedback events.
MaxReloadAt == 0

\* Feedback events processed in a run of the configuration store.
MaxStoreFeedback == 1

\* The number of feedback events in a run over every kind of request.
MaxCallFeedback == 4

\* The /feedback requests that can be in flight together.
MaxTasks == 3

\* Feedback events in a run that repeats one correction.
MaxDrift == 28

\* ------------------------------------------------------------- arithmetic

Max(a, b) == IF a >= b THEN a ELSE b

Min(a, b) == IF a <= b THEN a ELSE b

Abs(a) == IF a >= 0 THEN a ELSE 0 - a

\* ----------------------------------------------------- config.py defaults

Classes == {"arbeitsbericht", "typeplate", "document", "photo"}

ScoreKeys == {"AR", "TP", "DOC", "PHOTO"}

class_to_key ==
    [c \in Classes |->
        CASE c = "arbeitsbericht" -> "AR"
          [] c = "typeplate" -> "TP"
          [] c = "document" -> "DOC"
          [] c = "photo" -> "PHOTO"]

DefaultThresholds ==
    [c \in Classes |->
        CASE c = "arbeitsbericht" -> 500
          [] c = "typeplate" -> 300
          [] c = "document" -> 150
          [] c = "photo" -> 0]

DefaultWeightsAR ==
    [text_length_divisor |-> 500000, text_length_factor |-> 1500,
     keyword_multiplier |-> 2000, clip_bonus |-> 1000,
     min_text_length |-> 500000]

DefaultWeightsTP ==
    [clip_factor |-> 4000, keyword_multiplier |-> 1500,
     digit_ratio_factor |-> 10000, line_density_factor |-> 80000,
     color_uniformity_factor |-> 5000, rect_score_factor |-> 3000]

DefaultWeightsDOC == [text_length_divisor |-> 300000, clip_factor |-> 2000]

DefaultWeightsPHOTO ==
    [low_text_threshold |-> 20000, low_text_bonus |-> 2000,
     clip_factor |-> 2000]

DefaultWeights ==
    [k \in ScoreKeys |->
        CASE k = "AR" -> DefaultWeightsAR
          [] k = "TP" -> DefaultWeightsTP
          [] k = "DOC" -> DefaultWeightsDOC
          [] k = "PHOTO" -> DefaultWeightsPHOTO]

DefaultLearningConfig ==
    [reinforce_factor |-> 5, penalize_factor |-> -10, reward_factor |-> 10,
     threshold_recalc_interval |-> 50, min_feedback_for_update |-> 10,
     weight_update_interval |-> 50]

\* ------------------------------------------- classify_image: the decision

\* The scores an image can get: the feature providers are outside the model,
\* so the four scores are the inputs.  Scores are in hundredths and have no
\* upper limit; a confidence is in units of 1/12000, so that AR / 10.0 is
\* 12 * AR, TP / 15.0 is 8 * TP, DOC / 8.0 is 15 * DOC, 0.95 is 11400 and 0.5
\* is 6000.
ScoreVectors ==
    {[k \in ScoreKeys |->
        CASE k = "AR" -> ar [] k = "TP" -> tp [] k = "DOC" -> doc [] k = "PHOTO" -> photo] :
        ar \in {400, 500, 600, 1000}, tp \in {200, 300, 400, 700, 1500},
        doc \in {100, 150, 200, 400, 800}, photo \in {0, 150, 200, 400}}

\* The decision as the highest score among the classes at their thresholds.
decision_highest(S, TH) ==
    IF S["AR"] >= TH["arbeitsbericht"]
       /\ S["AR"] >= Max(S["TP"], Max(S["DOC"], S["PHOTO"]))
    THEN [class |-> "arbeitsbericht", confidence |-> Min(S["AR"] * 12, 11400)]
    ELSE IF S["TP"] > Max(S["DOC"], S["PHOTO"]) /\ S["TP"] >= TH["typeplate"]
    THEN [class |-> "typeplate", confidence |-> Min(S["TP"] * 8, 11400)]
    ELSE IF S["DOC"] > S["PHOTO"] /\ S["DOC"] >= TH["document"]
    THEN [class |-> "document", confidence |-> Min(S["DOC"] * 15, 11400)]
    ELSE [class |-> "photo", confidence |-> 6000]

\* The decision with ties going to the higher-priority class.
decision_ties(S, TH) ==
    IF S["AR"] >= TH["arbeitsbericht"]
    THEN [class |-> "arbeitsbericht", confidence |-> Min(S["AR"] * 12, 11400)]
    ELSE IF S["TP"] >= Max(S["DOC"], S["PHOTO"]) /\ S["TP"] >= TH["typeplate"]
    THEN [class |-> "typeplate", confidence |-> Min(S["TP"] * 8, 11400)]
    ELSE IF S["DOC"] >= S["PHOTO"] /\ S["DOC"] >= TH["document"]
    THEN [class |-> "document", confidence |-> Min(S["DOC"] * 15, 11400)]
    ELSE [class |-> "photo", confidence |-> 6000]

\* The decision with the linear scales and no cap.
decision_uncapped(S, TH) ==
    IF S["AR"] >= TH["arbeitsbericht"]
    THEN [class |-> "arbeitsbericht", confidence |-> S["AR"] * 12]
    ELSE IF S["TP"] > Max(S["DOC"], S["PHOTO"]) /\ S["TP"] >= TH["typeplate"]
    THEN [class |-> "typeplate", confidence |-> S["TP"] * 8]
    ELSE IF S["DOC"] > S["PHOTO"] /\ S["DOC"] >= TH["document"]
    THEN [class |-> "document", confidence |-> S["DOC"] * 15]
    ELSE [class |-> "photo", confidence |-> 6000]

\* The decision of classify_image (classifier_service.py lines 219-233).
decision(S, TH) ==
    IF S["AR"] >= TH["arbeitsbericht"]
    THEN [class |-> "arbeitsbericht", confidence |-> Min(S["AR"] * 12, 11400)]
    ELSE IF S["TP"] > Max(S["DOC"], S["PHOTO"]) /\ S["TP"] >= TH["typeplate"]
    THEN [class |-> "typeplate", confidence |-> Min(S["TP"] * 8, 11400)]
    ELSE IF S["DOC"] > S["PHOTO"] /\ S["DOC"] >= TH["document"]
    THEN [class |-> "document", confidence |-> Min(S["DOC"] * 15, 11400)]
    ELSE [class |-> "photo", confidence |-> 6000]

NoPrediction == [class |-> "none", confidence |-> 0]

ClassifyImage ==
    /\ \E S \in ScoreVectors :
         /\ scores' = S
         /\ prediction' = decision(S, THRESHOLDS)
    /\ UNCHANGED <<singleton_vars, engine_vars, store_vars, call_vars>>

\* --------------------------------- AdaptiveScoringEngine: weight updates

\* Vermeide dass Gewichte zu klein werden: 0.1
MIN_WEIGHT == 100

\* old_value * (1 + factor), with the factor in hundredths.
scaled(old_value, factor) == (old_value * (100 + factor)) \div 100

reinforce_leaf(old_value, factor) == scaled(old_value, factor)

\* The penalty without the floor.
penalize_leaf_unfloored(old_value, factor) == scaled(old_value, factor)

\* The penalty with the sign of the factor lost.
penalize_leaf_raising(old_value, factor) ==
    Max(scaled(old_value, 0 - factor), MIN_WEIGHT)

\* _penalize_weights, one leaf (line 144).
penalize_leaf(old_value, factor) == Max(scaled(old_value, factor), MIN_WEIGHT)

\* The reinforcement applied to every group instead of the class's own.
reinforce_weights_all(W, class_name, factor) ==
    IF class_name \notin DOMAIN class_to_key
    THEN W
    ELSE [key \in DOMAIN W |->
            [weight_key \in DOMAIN W[key] |->
                reinforce_leaf(W[key][weight_key], factor)]]

reinforce_weights(W, class_name, factor) ==
    IF class_name \notin DOMAIN class_to_key
    THEN W
    ELSE LET key == class_to_key[class_name] IN
         IF key \in DOMAIN W
         THEN [W EXCEPT ![key] =
                 [weight_key \in DOMAIN W[key] |->
                     reinforce_leaf(W[key][weight_key], factor)]]
         ELSE W

penalize_weights(W, class_name, factor) ==
    IF class_name \notin DOMAIN class_to_key
    THEN W
    ELSE LET key == class_to_key[class_name] IN
         IF key \in DOMAIN W
         THEN [W EXCEPT ![key] =
                 [weight_key \in DOMAIN W[key] |->
                     penalize_leaf(W[key][weight_key], factor)]]
         ELSE W

\* The adjustment with the two classes of a wrong prediction exchanged.
adjusted_weights_swapped(W, predicted, correct, LC) ==
    IF predicted = correct
    THEN reinforce_weights(W, predicted, LC.reinforce_factor)
    ELSE reinforce_weights(penalize_weights(W, correct, LC.penalize_factor),
                           predicted, LC.reward_factor)

\* Lines 64-73: reinforce on a correct prediction, else penalize the predicted
\* class and then reward the corrected one.
adjusted_weights(W, predicted, correct, LC) ==
    IF predicted = correct
    THEN reinforce_weights(W, predicted, LC.reinforce_factor)
    ELSE reinforce_weights(penalize_weights(W, predicted, LC.penalize_factor),
                           correct, LC.reward_factor)

\* ------------------------- AdaptiveScoringEngine: threshold recalibration

\* Mindestens 5 Samples
MIN_SAMPLES == 5

RECURSIVE class_scores(_, _)
\* The scores of class c recorded on the entries whose correct class is c.
class_scores(history, c) ==
    IF history = <<>>
    THEN <<>>
    ELSE LET entry == Head(history)
             score_key == class_to_key[c]
         IN (IF entry.correct = c /\ score_key \in DOMAIN entry.scores
             THEN <<entry.scores[score_key]>>
             ELSE <<>>) \o class_scores(Tail(history), c)

\* np.percentile(scores, 25), linear interpolation, times 4: the virtual index
\* is 0.25 * (n - 1) over the sorted scores.
percentile25_x4(samples) ==
    LET sorted == SortSeq(samples, LAMBDA a, b : a < b)
        n == Len(sorted)
        lo == ((n - 1) \div 4) + 1
        r == (n - 1) % 4
    IN IF r = 0
       THEN 4 * sorted[lo]
       ELSE 4 * sorted[lo] + r * (sorted[lo + 1] - sorted[lo])

\* The test without the abs: only a rise counts.
significant_signed(new_x4, old_threshold) ==
    10 * (new_x4 - 4 * old_threshold) > 4 * Max(old_threshold, 10)

\* abs(new_threshold - old_threshold) / max(old_threshold, 0.1) > 0.1
significant(new_x4, old_threshold) ==
    10 * Abs(new_x4 - 4 * old_threshold) > 4 * Max(old_threshold, 10)

\* round(float(new_threshold), 2): the nearest hundredth; a value half way
\* between two hundredths goes to either, as its binary representation decides.
rounded2(new_x4) ==
    LET q == new_x4 \div 4
        rem == new_x4 % 4
    IN IF rem = 0 \/ rem = 1 THEN {q}
       ELSE IF rem = 3 THEN {q + 1}
       ELSE {q, q + 1}

\* The recalibration of a class from any sample at all.
recalculated_any(history, TH, c) ==
    LET samples == class_scores(history, c)
        old_threshold == IF c \in DOMAIN TH THEN TH[c] ELSE 0
    IN IF Len(samples) >= 1
       THEN LET new_x4 == percentile25_x4(samples) IN
            IF significant(new_x4, old_threshold)
            THEN rounded2(new_x4)
            ELSE {old_threshold}
       ELSE {old_threshold}

\* The values the pass can leave in THRESHOLDS[c] (lines 188-197).
recalculated(history, TH, c) ==
    LET samples == class_scores(history, c)
        old_threshold == IF c \in DOMAIN TH THEN TH[c] ELSE 0
    IN IF Len(samples) >= MIN_SAMPLES
       THEN LET new_x4 == percentile25_x4(samples) IN
            IF significant(new_x4, old_threshold)
            THEN rounded2(new_x4)
            ELSE {old_threshold}
       ELSE {old_threshold}

\* The THRESHOLDS dictionaries with one of the values found for each class.
threshold_choices(ar, tp, doc, photo) ==
    {[c \in Classes |->
        CASE c = "arbeitsbericht" -> a
          [] c = "typeplate" -> t
          [] c = "document" -> d
          [] c = "photo" -> p] : a \in ar, t \in tp, d \in doc, p \in photo}

\* _recalculate_thresholds: the threshold sets the pass can produce, one for
\* each way the half-way values are rounded.
recalculate_thresholds(history, TH, LC) ==
    IF Len(history) < LC.min_feedback_for_update
    THEN {TH}
    ELSE threshold_choices(recalculated(history, TH, "arbeitsbericht"),
                           recalculated(history, TH, "typeplate"),
                           recalculated(history, TH, "document"),
                           recalculated(history, TH, "photo"))

\* What process_feedback has returned before any call was made.
NoFeedback ==
    [status |-> "none", store_attempted |-> FALSE, stored |-> FALSE,
     push_attempted |-> FALSE, push_acknowledged |-> FALSE,
     weights_updated |-> FALSE, feedback_count |-> 0, correct_predictions |-> 0,
     total_feedback |-> 0, weights_version |-> 0]

\* ----------------------------------------------- ConfigurationManager

Sections == {"THRESHOLDS", "WEIGHTS", "LEARNING_CONFIG", "CI4_CONFIG"}

\* ClassificationConfig.CI4_CONFIG: the values the environment supplies
\* (CI4_BASE_URL and CI4_API_KEY unset, CI4_ENABLED=true).  Nothing assigns
\* to it after the class is built.
CI4_CONFIG ==
    [base_url |-> "http://localhost/api/v1", api_key |-> "", enabled |-> TRUE]

EmptyConfig == [s \in {} |-> 0]

\* _deep_merge on the dictionaries the schema admits: a section is a
\* dictionary, a weight group is a dictionary, every other value is a scalar
\* and is replaced.
merge_leaves(base, updates) ==
    [k \in DOMAIN base \cup DOMAIN updates |->
        IF k \in DOMAIN updates THEN updates[k] ELSE base[k]]

merge_groups(base, updates) ==
    [k \in DOMAIN base \cup DOMAIN updates |->
        IF k \in DOMAIN updates
        THEN IF k \in DOMAIN base
             THEN merge_leaves(base[k], updates[k])
             ELSE updates[k]
        ELSE base[k]]

\* A merge that builds its result from the updates' keys alone.
deep_merge_updates_only(base, updates) == updates

deep_merge(base, updates) ==
    [s \in DOMAIN base \cup DOMAIN updates |->
        IF s \in DOMAIN updates
        THEN IF s \in DOMAIN base
             THEN IF s = "WEIGHTS"
                  THEN merge_groups(base[s], updates[s])
                  ELSE merge_leaves(base[s], updates[s])
             ELSE updates[s]
        ELSE base[s]]

\* _get_defaults: deep copies of the singleton's sections as they are now.
get_defaults(TH, W, LC) ==
    [s \in Sections |->
        CASE s = "THRESHOLDS" -> TH
          [] s = "WEIGHTS" -> W
          [] s = "LEARNING_CONFIG" -> LC
          [] s = "CI4_CONFIG" -> CI4_CONFIG]

AbsentFile == [state |-> "absent", data |-> EmptyConfig]

CorruptFile == [state |-> "corrupt", data |-> EmptyConfig]

ValidFile(data) == [state |-> "valid", data |-> data]

\* A recovery that gives up without reading the backup.
recover_from_corruption_none(backup) == [found |-> FALSE, data |-> EmptyConfig]

\* _recover_from_corruption: the backup if it loads, else None.
recover_from_corruption(backup) ==
    IF backup.state = "valid"
    THEN [found |-> TRUE, data |-> backup.data]
    ELSE [found |-> FALSE, data |-> EmptyConfig]

\* _load_from_file: None when the file does not exist, its content when it
\* loads and validates, else whatever the recovery yields.
load_from_file(file, backup) ==
    CASE file.state = "absent" -> [found |-> FALSE, data |-> EmptyConfig]
      [] file.state = "valid" -> [found |-> TRUE, data |-> file.data]
      [] file.state = "corrupt" -> recover_from_corruption(backup)

\* The merge with the two upper layers in the wrong order.
merged_config_file_last(TH, W, LC, file, backup, overrides) ==
    LET defaults == get_defaults(TH, W, LC)
        file_config == load_from_file(file, backup)
        with_overrides == IF overrides # EmptyConfig
                          THEN deep_merge(defaults, overrides)
                          ELSE defaults
    IN IF file_config.found /\ file_config.data # EmptyConfig
       THEN deep_merge(with_overrides, file_config.data)
       ELSE with_overrides

\* get_config's body: defaults, then the file, then the runtime overrides.
\* An empty dictionary is falsy, so an empty layer is skipped.
merged_config(TH, W, LC, file, backup, overrides) ==
    LET defaults == get_defaults(TH, W, LC)
        file_config == load_from_file(file, backup)
        with_file == IF file_config.found /\ file_config.data # EmptyConfig
                     THEN deep_merge(defaults, file_config.data)
                     ELSE defaults
    IN IF overrides # EmptyConfig
       THEN deep_merge(with_file, overrides)
       ELSE with_file

\* ClassificationConfig.update_weights: only the groups that exist are updated.
update_weights(W, new_weights) ==
    [category \in DOMAIN W |->
        IF category \in DOMAIN new_weights
        THEN merge_leaves(W[category], new_weights[category])
        ELSE W[category]]

\* _apply_to_singleton, by section.
applied_thresholds(TH, config) ==
    IF "THRESHOLDS" \in DOMAIN config
    THEN merge_leaves(TH, config["THRESHOLDS"])
    ELSE TH

applied_weights(W, config) ==
    IF "WEIGHTS" \in DOMAIN config
    THEN update_weights(W, config["WEIGHTS"])
    ELSE W

applied_learning_config(LC, config) ==
    IF "LEARNING_CONFIG" \in DOMAIN config
    THEN config["LEARNING_CONFIG"]
    ELSE LC

\* The ranges config_schemas.py declares: lo and hi in the leaf's unit, and
\* whether lo itself is excluded (gt) or allowed (ge).
Range(lo, hi, open) == [lo |-> lo, hi |-> hi, open |-> open]

in_range(v, r) == (IF r.open THEN v > r.lo ELSE v >= r.lo) /\ v <= r.hi

ThresholdRange == Range(0, 100000, FALSE)

WeightRanges ==
    [k \in ScoreKeys |->
       CASE k = "AR" ->
              [text_length_divisor |-> Range(0, 10000000, TRUE),
               text_length_factor |-> Range(0, 100000, TRUE),
               keyword_multiplier |-> Range(0, 100000, TRUE),
               clip_bonus |-> Range(0, 100000, FALSE),
               min_text_length |-> Range(0, 100000000, FALSE)]
         [] k = "TP" ->
              [clip_factor |-> Range(0, 100000, TRUE),
               keyword_multiplier |-> Range(0, 100000, TRUE),
               digit_ratio_factor |-> Range(0, 1000000, TRUE),
               line_density_factor |-> Range(0, 1000000, TRUE),
               color_uniformity_factor |-> Range(0, 100000, TRUE),
               rect_score_factor |-> Range(0, 100000, TRUE)]
         [] k = "DOC" ->
              [text_length_divisor |-> Range(0, 10000000, TRUE),
               clip_factor |-> Range(0, 100000, TRUE)]
         [] k = "PHOTO" ->
              [low_text_threshold |-> Range(0, 1000000, FALSE),
               low_text_bonus |-> Range(0, 100000, FALSE),
               clip_factor |-> Range(0, 100000, TRUE)]]

LearningRanges ==
    [reinforce_factor |-> Range(0, 100, FALSE),
     penalize_factor |-> Range(-100, 0, FALSE),
     reward_factor |-> Range(0, 100, FALSE),
     threshold_recalc_interval |-> Range(1, 1000, FALSE),
     min_feedback_for_update |-> Range(1, 100, FALSE),
     weight_update_interval |-> Range(1, 1000, FALSE)]

\* FullConfigSchema(**config): no section the schema does not know, and in
\* each section present every declared field present and in its range.
schema_valid(config) ==
    /\ DOMAIN config \subseteq Sections
    /\ "THRESHOLDS" \in DOMAIN config =>
          /\ Classes \subseteq DOMAIN config["THRESHOLDS"]
          /\ \A c \in Classes : in_range(config["THRESHOLDS"][c], ThresholdRange)
    /\ "WEIGHTS" \in DOMAIN config =>
          /\ ScoreKeys \subseteq DOMAIN config["WEIGHTS"]
          /\ \A k \in ScoreKeys :
                /\ DOMAIN WeightRanges[k] \subseteq DOMAIN config["WEIGHTS"][k]
                /\ \A leaf \in DOMAIN WeightRanges[k] :
                      in_range(config["WEIGHTS"][k][leaf], WeightRanges[k][leaf])
    /\ "LEARNING_CONFIG" \in DOMAIN config =>
          /\ DOMAIN LearningRanges \subseteq DOMAIN config["LEARNING_CONFIG"]
          /\ \A f \in DOMAIN LearningRanges :
                in_range(config["LEARNING_CONFIG"][f], LearningRanges[f])
    /\ "CI4_CONFIG" \in DOMAIN config =>
          /\ {"base_url", "enabled"} \subseteq DOMAIN config["CI4_CONFIG"]
          /\ config["CI4_CONFIG"]["enabled"] \in BOOLEAN

\* The record of one call: which operation, whether the lock was free when it
\* started, whether it came back, and what it returned.  A call is "blocked" when it waits for _lock: asyncio.Lock is not
\* reentrant and wakes a waiter only when its holder releases it.
NoArgs ==
    [updates |-> EmptyConfig, persist |-> FALSE, clear_runtime |-> FALSE,
     failure |-> "none"]

Call(op, outcome, result) ==
    [op |-> op, args |-> NoArgs, lock_was_free |-> (lock = "free"),
     outcome |-> outcome, result |-> result]

NoCall ==
    [op |-> "none", args |-> NoArgs, lock_was_free |-> TRUE,
     outcome |-> "returned", result |-> EmptyConfig]

\* A coroutine runs without interruption until it awaits something that is
\* not ready, and acquiring a free asyncio.Lock does not suspend; so a call
\* that finds the lock free runs to its end, or to the point where it waits
\* for the lock again, as one step.

\* A get_config that puts the backup in the place of a primary file it could
\* not load.
GetConfig_recovering ==
    /\ lock = "free"
    /\ store_call' = Call("get_config", "returned",
             merged_config(THRESHOLDS, WEIGHTS, LEARNING_CONFIG,
                           config_file, backup_file, runtime_overrides))
    /\ config_file' = IF config_file.state = "corrupt" /\ backup_file.state = "valid"
                      THEN backup_file ELSE config_file
    /\ UNCHANGED <<lock, runtime_overrides, backup_file, audit_log>>
    /\ UNCHANGED <<decide_vars, singleton_vars, engine_vars, call_vars>>

\* get_config (lines 36-63).
GetConfig ==
    /\ IF lock = "free"
       THEN store_call' = Call("get_config", "returned",
                merged_config(THRESHOLDS, WEIGHTS, LEARNING_CONFIG,
                              config_file, backup_file, runtime_overrides))
       ELSE store_call' = Call("get_config", "blocked", EmptyConfig)
    /\ UNCHANGED <<lock, runtime_overrides, config_file, backup_file, audit_log>>
    /\ UNCHANGED <<decide_vars, singleton_vars, engine_vars, call_vars>>

\* The updates a caller sends: the empty one, a valid one, one with a
\* threshold below its range, one with a learning factor above its range, and
\* one with a field the schema does not know.
Updates ==
    {EmptyConfig,
     [s \in {"THRESHOLDS"} |-> [DefaultThresholds EXCEPT !["photo"] = 50]],
     [s \in {"THRESHOLDS"} |-> [c \in {"photo"} |-> -50]],
     [s \in {"LEARNING_CONFIG"} |->
        [DefaultLearningConfig EXCEPT !.reinforce_factor = 150]],
     [s \in {"WEIGHTS"} |-> [k \in {"DOC"} |-> [leaf \in {"clip_factor"} |-> 4000]]],
     [s \in {"EXTRA"} |-> [k \in {"value"} |-> 1]]}

\* update_config (lines 65-107).  With the lock taken at line 79 the call
\* reaches line 81, `current = await self.get_config()`, whose own
\* `async with self._lock` (line 46) waits for the lock the caller holds:
\* lines 83-107 are never reached.
UpdateConfig ==
    /\ \E updates \in Updates, persist \in BOOLEAN :
         store_call' =
            [Call("update_config", "blocked", EmptyConfig)
                EXCEPT !.args = [NoArgs EXCEPT !.updates = updates,
                                               !.persist = persist]]
    /\ lock' = "held"
    /\ UNCHANGED <<runtime_overrides, config_file, backup_file, audit_log>>
    /\ UNCHANGED <<decide_vars, singleton_vars, engine_vars, call_vars>>

\* _log_change (lines 367-386): one record appended to the audit file, held
\* here as its action; a failure to write it is logged and swallowed.
log_change(log, action, writable) ==
    IF writable THEN Append(log, action) ELSE log

\* reload (lines 109-129).  Lines 120-128 run; line 129,
\* `return await self.get_config()`, waits for the lock the caller holds.
\* writable says whether the audit file can be written.
ReloadWith(writable) ==
    \E clear_runtime \in BOOLEAN :
      IF lock = "free"
      THEN LET file_config == load_from_file(config_file, backup_file)
               applies == file_config.found /\ file_config.data # EmptyConfig
           IN /\ Len(audit_log) < MaxAudit
              /\ lock' = "held"
              /\ runtime_overrides' =
                    IF clear_runtime THEN EmptyConfig ELSE runtime_overrides
              /\ THRESHOLDS' = IF applies
                               THEN applied_thresholds(THRESHOLDS, file_config.data)
                               ELSE THRESHOLDS
              /\ WEIGHTS' = IF applies
                            THEN applied_weights(WEIGHTS, file_config.data)
                            ELSE WEIGHTS
              /\ LEARNING_CONFIG' =
                    IF applies
                    THEN applied_learning_config(LEARNING_CONFIG, file_config.data)
                    ELSE LEARNING_CONFIG
              /\ audit_log' = log_change(audit_log, "reload", writable)
              /\ store_call' =
                    [Call("reload", "blocked", EmptyConfig)
                        EXCEPT !.args = [NoArgs EXCEPT !.clear_runtime = clear_runtime]]
              /\ UNCHANGED <<config_file, backup_file>>
              /\ UNCHANGED <<decide_vars, engine_vars, call_vars>>
      ELSE /\ store_call' =
                [Call("reload", "blocked", EmptyConfig)
                    EXCEPT !.args = [NoArgs EXCEPT !.clear_runtime = clear_runtime]]
           /\ UNCHANGED <<lock, runtime_overrides, config_file, backup_file,
                          audit_log>>
           /\ UNCHANGED <<decide_vars, singleton_vars, engine_vars, call_vars>>

\* reload with the audit file writable.
Reload == ReloadWith(TRUE)

\* _atomic_write: the temp file is renamed over config.json after the
\* existing config.json, if any, was renamed to the backup.
backup_after_write(file, backup) == IF file.state = "absent" THEN backup ELSE file

\* Where a write can fail or the process can stop: nowhere, in the write of
\* the temp file (line 288), in the rename of config.json to the backup
\* (line 293, reached only when config.json exists), or in the rename of the
\* temp file to config.json (line 296).
WriteFailures == {"none", "temp_write", "rotate", "rename"}

\* config.json and the backup after _atomic_write(config) that got as far as
\* `failure`.  The temp file is read by nothing and is left out.
atomic_write(file, backup, config, failure) ==
    CASE failure = "none" ->
           [file |-> ValidFile(config), backup |-> backup_after_write(file, backup)]
      [] failure \in {"temp_write", "rotate"} ->
           [file |-> file, backup |-> backup]
      [] failure = "rename" ->
           [file |-> AbsentFile, backup |-> backup_after_write(file, backup)]

\* reset_to_defaults (lines 131-152).  When the write raises, the exception
\* leaves the `async with`, the lock is released, and lines 149-152 are
\* skipped; _runtime_overrides was cleared at line 143.  When the process
\* stops in the write, the next process starts with the memory of a new one
\* and the files as they were left.  writable says whether the audit file can
\* be written.
ResetWith(writable) ==
    IF lock = "free"
    THEN \E failure \in WriteFailures, mode \in {"raised", "stopped"} :
         LET defaults == get_defaults(THRESHOLDS, WEIGHTS, LEARNING_CONFIG)
             written == atomic_write(config_file, backup_file, defaults, failure)
         IN
         /\ failure = "rotate" => config_file.state # "absent"
         /\ failure = "none" => mode = "raised"
         /\ config_file' = written.file
         /\ backup_file' = written.backup
         /\ UNCHANGED <<lock, decide_vars>>
         /\ IF failure = "none"
            THEN /\ Len(audit_log) < MaxAudit
                 /\ runtime_overrides' = EmptyConfig
                 /\ THRESHOLDS' = applied_thresholds(THRESHOLDS, defaults)
                 /\ WEIGHTS' = applied_weights(WEIGHTS, defaults)
                 /\ LEARNING_CONFIG' =
                       applied_learning_config(LEARNING_CONFIG, defaults)
                 /\ audit_log' = log_change(audit_log, "reset_to_defaults", writable)
                 /\ store_call' = Call("reset_to_defaults", "returned", defaults)
                 /\ UNCHANGED engine_vars
            ELSE IF mode = "raised"
            THEN /\ runtime_overrides' = EmptyConfig
                 /\ store_call' =
                       [Call("reset_to_defaults", "raised", EmptyConfig)
                           EXCEPT !.args = [NoArgs EXCEPT !.failure = failure]]
                 /\ UNCHANGED <<audit_log, singleton_vars, engine_vars>>
            ELSE /\ runtime_overrides' = EmptyConfig
                 /\ THRESHOLDS' = DefaultThresholds
                 /\ WEIGHTS' = DefaultWeights
                 /\ LEARNING_CONFIG' = DefaultLearningConfig
                 /\ feedback_history' = <<>>
                 /\ feedback_count' = 0
                 /\ weights_version' = 1
                 /\ feedback_result' = NoFeedback
                 /\ store_call' =
                       [Call("reset_to_defaults", "stopped", EmptyConfig)
                           EXCEPT !.args = [NoArgs EXCEPT !.failure = failure]]
                 /\ UNCHANGED <<audit_log, events_total>>
    ELSE /\ store_call' = Call("reset_to_defaults", "blocked", EmptyConfig)
         /\ UNCHANGED <<lock, runtime_overrides, config_file, backup_file,
                        audit_log>>
         /\ UNCHANGED <<decide_vars, singleton_vars, engine_vars>>

\* reset_to_defaults called on the store itself, with the audit file writable.
ResetToDefaults ==
    /\ ResetWith(TRUE)
    /\ UNCHANGED call_vars

\* _calculate_change_percentage: the mean, over the leaves both sides have
\* and whose old value is not 0, of abs(new - old) / abs(old) * 100; each
\* term is held in whole percent.  The result is <<total_change, count>>.
RECURSIVE change_total(_, _, _)
change_total(old_weights, new_weights, leaves) ==
    IF leaves = {}
    THEN <<0, 0>>
    ELSE LET at == CHOOSE l \in leaves : TRUE
             rest == change_total(old_weights, new_weights, leaves \ {at})
             old_val == old_weights[at[1]][at[2]]
             new_val == new_weights[at[1]][at[2]]
         IN IF old_val # 0
            THEN <<rest[1] + (Abs(new_val - old_val) * 100) \div Abs(old_val),
                   rest[2] + 1>>
            ELSE rest

shared_leaves(old_weights, new_weights) ==
    {<<category, key>> \in
        UNION {{category} \X DOMAIN old_weights[category] :
                  category \in DOMAIN old_weights \cap DOMAIN new_weights} :
        key \in DOMAIN new_weights[category]}

\* Whether the mean change is above 50 (line 173).
weights_warning(old_weights, new_weights) ==
    LET change == change_total(old_weights, new_weights,
                               shared_leaves(old_weights, new_weights))
    IN change[2] > 0 /\ change[1] > 50 * change[2]

\* The thresholds that draw a warning (lines 179-188): the old value is
\* above 0 and the new one, 0 when it is missing, is more than 100% away.
threshold_warnings(old_thresholds, new_thresholds) ==
    {key \in DOMAIN old_thresholds :
        LET old_val == old_thresholds[key]
            new_val == IF key \in DOMAIN new_thresholds
                       THEN new_thresholds[key] ELSE 0
        IN old_val > 0 /\ Abs(new_val - old_val) > old_val}

\* The warnings validate_safety returns for new_config against current.
safety_warnings(current, new_config) ==
    [weights |->
        /\ "WEIGHTS" \in DOMAIN new_config
        /\ "WEIGHTS" \in DOMAIN current
        /\ weights_warning(current["WEIGHTS"], new_config["WEIGHTS"]),
     thresholds |->
        IF "THRESHOLDS" \in DOMAIN new_config /\ "THRESHOLDS" \in DOMAIN current
        THEN threshold_warnings(current["THRESHOLDS"], new_config["THRESHOLDS"])
        ELSE {}]

\* A validation that leaves the candidate in the runtime overrides.
ValidateSafety_merging ==
    /\ \E new_config \in Updates :
         /\ store_call' =
               [Call("validate_safety", "returned", EmptyConfig)
                   EXCEPT !.args = [NoArgs EXCEPT !.updates = new_config]]
         /\ runtime_overrides' = new_config
    /\ UNCHANGED <<lock, config_file, backup_file, audit_log>>
    /\ UNCHANGED <<decide_vars, singleton_vars, engine_vars, call_vars>>

\* validate_safety (lines 154-190): it takes no lock itself, its get_config
\* does.
ValidateSafety ==
    /\ \E new_config \in Updates :
         store_call' =
            [(IF lock = "free"
              THEN Call("validate_safety", "returned",
                        safety_warnings(
                           merged_config(THRESHOLDS, WEIGHTS, LEARNING_CONFIG,
                                         config_file, backup_file,
                                         runtime_overrides),
                           new_config))
              ELSE Call("validate_safety", "blocked", EmptyConfig))
                EXCEPT !.args = [NoArgs EXCEPT !.updates = new_config]]
    /\ UNCHANGED <<lock, runtime_overrides, config_file, backup_file, audit_log>>
    /\ UNCHANGED <<decide_vars, singleton_vars, engine_vars, call_vars>>

\* clear_runtime_overrides (lines 192-196).
ClearRuntimeOverrides ==
    /\ IF lock = "free"
       THEN /\ runtime_overrides' = EmptyConfig
            /\ store_call' = Call("clear_runtime_overrides", "returned", EmptyConfig)
       ELSE /\ store_call' = Call("clear_runtime_overrides", "blocked", EmptyConfig)
            /\ UNCHANGED runtime_overrides
    /\ UNCHANGED <<lock, config_file, backup_file, audit_log>>
    /\ UNCHANGED <<decide_vars, singleton_vars, engine_vars, call_vars>>

\* ------------------------------------------------------ FeedbackProcessor

\* The classifications the record store (CI4) holds, by id.  The first is the
\* spec's end-to-end example; the last was stored without a DOC or PHOTO score.
ClassificationIds == {"c1", "c2", "c3"}

ci4_classification ==
    [id \in ClassificationIds |->
        CASE id = "c1" ->
               [class |-> "document", confidence |-> 3000,
                scores |-> [k \in ScoreKeys |->
                              CASE k = "AR" -> 0 [] k = "TP" -> 100
                                [] k = "DOC" -> 200 [] k = "PHOTO" -> 50]]
          [] id = "c2" ->
               [class |-> "photo", confidence |-> 6000,
                scores |-> [k \in ScoreKeys |->
                              CASE k = "AR" -> 0 [] k = "TP" -> 0
                                [] k = "DOC" -> 100 [] k = "PHOTO" -> 300]]
          [] id = "c3" ->
               [class |-> "typeplate", confidence |-> 3200,
                scores |-> [k \in {"AR", "TP"} |->
                              CASE k = "AR" -> 0 [] k = "TP" -> 400]]]

\* The feedback requests sent: a known id with its corrected class, and an id
\* the record store does not know.
FeedbackRequests ==
    {<<"c1", "photo">>, <<"c2", "photo">>, <<"c3", "document">>,
     <<"unknown", "photo">>}

\* An id whose record the store returns in a shape without "prediction".
MalformedIds == {"c4"}

AllFeedbackRequests == FeedbackRequests \cup {<<"c4", "photo">>}

\* An Optional value: None, or the value in a one-element sequence.
None == <<>>

Some(value) == <<value>>

\* A lookup that answers every id with a record.
get_classification_any(classification_id, reachable) ==
    IF classification_id \in ClassificationIds
    THEN Some(ci4_classification[classification_id])
    ELSE Some(ci4_classification["c1"])

\* CI4Client.get_classification (ci4_client.py lines 177-201): the record,
\* or None when the request fails (an unknown id is answered with an error
\* status, which raise_for_status turns into a RequestException).
get_classification(classification_id, reachable) ==
    IF ~reachable
    THEN None
    ELSE IF classification_id \in ClassificationIds
         THEN Some(ci4_classification[classification_id])
         ELSE IF classification_id \in MalformedIds
              THEN Some([classification_id |-> classification_id])
              ELSE None

\* Whether lines 47-57 of adjust_weights_from_feedback find the keys they
\* read; a missing key raises KeyError before anything is changed.
well_formed(original) == {"class", "confidence", "scores"} \subseteq DOMAIN original

\* A processor that gives up when the correction could not be stored.
continues_after_store_strict(feedback_stored) == feedback_stored

\* feedback_processor.py lines 76-79: a failed store_feedback is logged and
\* the processing goes on.
continues_after_store(feedback_stored) == TRUE

\* get_statistics: the number of entries predicted correctly (accuracy is
\* this over the length of the history).
RECURSIVE correct_predictions(_)
correct_predictions(history) ==
    IF history = <<>>
    THEN 0
    ELSE (IF Head(history).predicted = Head(history).correct THEN 1 ELSE 0)
         + correct_predictions(Tail(history))

\* An accuracy cut off after the third decimal.
rounded3_down(correct, total) == {(1000 * correct) \div total}

\* round(accuracy, 3), in thousandths: the nearest thousandth of
\* correct / total; a quotient half way between two thousandths goes to
\* either, as its binary representation decides.
rounded3(correct, total) ==
    LET q == (1000 * correct) \div total
        rem == (1000 * correct) % total
    IN IF 2 * rem < total THEN {q}
       ELSE IF 2 * rem > total THEN {q + 1}
       ELSE {q, q + 1}

\* dict(Counter(...)) over one field of the entries (lines 232-238).
class_counts(history, field) ==
    [c \in {history[i][field] : i \in DOMAIN history} |->
        Cardinality({i \in DOMAIN history : history[i][field] = c})]

\* The confusion tallies (lines 241-244); the key "predicted -> correct" is
\* kept as the pair.
confusion_matrix(history) ==
    [pair \in {<<history[i].predicted, history[i].correct>> : i \in DOMAIN history} |->
        Cardinality({i \in DOMAIN history :
                        <<history[i].predicted, history[i].correct>> = pair})]

\* The last ten entries (line 253).
recent_feedback(history) ==
    SubSeq(history, Max(1, Len(history) - 9), Len(history))

\* get_statistics (scoring_engine.py lines 203-254): the results it can
\* return, accuracy in thousandths.
get_statistics(history, version, TH) ==
    IF history = <<>>
    THEN {[total_feedback |-> 0, accuracy |-> 0,
           class_distribution |-> EmptyConfig, weights_version |-> version]}
    ELSE {[total_feedback |-> Len(history),
           accuracy |-> accuracy,
           class_distribution |->
              [predicted |-> class_counts(history, "predicted"),
               correct |-> class_counts(history, "correct")],
           confusion_matrix |-> confusion_matrix(history),
           weights_version |-> version,
           current_thresholds |-> TH,
           recent_feedback |-> recent_feedback(history)] :
             accuracy \in rounded3(correct_predictions(history), Len(history))}

\* feedback_entry (lines 52-58); the timestamp is left out.
feedback_entry(original, correct) ==
    [predicted |-> original.class, correct |-> correct,
     scores |-> original.scores, confidence |-> original.confidence]

\* Whether the count is at a recalibration boundary (line 76).
recalc_due(count, LC) == count % LC.threshold_recalc_interval = 0

\* A push at every recalibration boundary.
sync_due_recalc(count, LC) == count % LC.threshold_recalc_interval = 0

\* Whether the count is at a sync boundary (feedback_processor.py line 92).
sync_due(count, LC) == count % LC.weight_update_interval = 0

\* A result that reports every attempted push as done.
weights_updated_attempted(attempted, acknowledged) == attempted

\* weights_updated (feedback_processor.py lines 91-99): False unless the
\* push was made and update_model_weights returned a response.
weights_updated(attempted, acknowledged) == attempted /\ acknowledged

\* The version bumped only by a pass that got past the early return.
next_version_gated(version, count, LC) ==
    IF recalc_due(count, LC) /\ count >= LC.min_feedback_for_update
    THEN version + 1
    ELSE version

\* weights_version after the event (lines 76-79).
next_version(version, count, LC) ==
    IF recalc_due(count, LC) THEN version + 1 ELSE version

\* A call to the record store's model-weights endpoints: the operation, what
\* was sent, and the state of ConfigurationManager._lock while the call was in
\* progress.
Ci4Call(op, payload, lock_state) ==
    [op |-> op, weights |-> payload.weights, thresholds |-> payload.thresholds,
     lock |-> lock_state]

NoPayload == [weights |-> EmptyConfig, thresholds |-> EmptyConfig]

NoCi4Call == Ci4Call("none", NoPayload, "free")

\* A push of the values the event started with.
update_payload_before(old_weights, old_thresholds, new_weights, new_thresholds) ==
    [weights |-> old_weights, thresholds |-> old_thresholds]

\* The arguments of update_model_weights (feedback_processor.py lines 94-97):
\* updated_weights is config.WEIGHTS as adjust_weights_from_feedback returned
\* it at line 81, and config.THRESHOLDS is read after that call.
update_payload(old_weights, old_thresholds, new_weights, new_thresholds) ==
    [weights |-> new_weights, thresholds |-> new_thresholds]

\* process_feedback from store_feedback on (feedback_processor.py lines
\* 76-111), adjust_weights_from_feedback included (scoring_engine.py lines
\* 47-81), for the record original the lookup returned.  history, count,
\* weights and thresholds are what the learning step leaves when it runs;
\* stored and acknowledged are the outcomes of store_feedback and of the push;
\* limit is the number of events the run may process.  An exception inside
\* the try block is caught at line 113 and returned as an error result.
ProcessFound(original, history, count, weights, thresholds, limit) ==
    \E stored \in BOOLEAN :
       IF ~continues_after_store(stored) \/ ~well_formed(original)
       THEN /\ feedback_result' =
                 [NoFeedback EXCEPT !.status = "error",
                                    !.store_attempted = TRUE,
                                    !.stored = stored]
            /\ ci4_call' = NoCi4Call
            /\ UNCHANGED <<feedback_history, feedback_count, weights_version,
                           events_total>>
            /\ UNCHANGED <<decide_vars, singleton_vars, store_vars>>
       ELSE /\ events_total < limit
            /\ events_total' = events_total + 1
            /\ feedback_history' = history
            /\ feedback_count' = count
            /\ WEIGHTS' = weights
            /\ THRESHOLDS' \in thresholds
            /\ weights_version' =
                  next_version(weights_version, count, LEARNING_CONFIG)
            /\ ci4_call' =
                  IF sync_due(count, LEARNING_CONFIG)
                  THEN Ci4Call("update_model_weights",
                               update_payload(WEIGHTS, THRESHOLDS,
                                              WEIGHTS', THRESHOLDS'),
                               lock)
                  ELSE NoCi4Call
            /\ \E acknowledged \in BOOLEAN :
                 LET attempted == sync_due(count, LEARNING_CONFIG)
                 IN /\ attempted \/ ~acknowledged
                    /\ feedback_result' =
                         [status |-> "success",
                          store_attempted |-> TRUE, stored |-> stored,
                          push_attempted |-> attempted,
                          push_acknowledged |-> acknowledged,
                          weights_updated |->
                             weights_updated(attempted, acknowledged),
                          feedback_count |-> count,
                          correct_predictions |-> correct_predictions(history),
                          total_feedback |-> Len(history),
                          weights_version |-> weights_version']
            /\ UNCHANGED LEARNING_CONFIG
            /\ UNCHANGED <<decide_vars, store_vars>>

\* What a handler has read of the engine's state when it computes its
\* writes: feedback_count (line 60) and the weight leaves (lines 110, 143).
Seen(count, weights) == [feedback_count |-> count, WEIGHTS |-> weights]

\* process_feedback for one request with CI4 enabled (feedback_processor.py
\* lines 57-118), writing what it computes from the values it has seen;
\* reachable is the outcome of the lookup.
ProcessSeen(request, reachable, seen, limit) ==
    LET correct == request[2]
        found == get_classification(request[1], reachable)
        original == found[1]
        history == Append(feedback_history, feedback_entry(original, correct))
        count == seen.feedback_count + 1
    IN IF found = None
       THEN /\ feedback_result' = [NoFeedback EXCEPT !.status = "error"]
            /\ ci4_call' = NoCi4Call
            /\ UNCHANGED <<feedback_history, feedback_count, weights_version,
                           events_total>>
            /\ UNCHANGED <<decide_vars, singleton_vars, store_vars>>
       ELSE ProcessFound(
               original, history, count,
               adjusted_weights(seen.WEIGHTS, original.class, correct,
                                LEARNING_CONFIG),
               IF recalc_due(count, LEARNING_CONFIG)
               THEN recalculate_thresholds(history, THRESHOLDS,
                                           LEARNING_CONFIG)
               ELSE {THRESHOLDS},
               limit)

\* The handler run in one piece, as the event loop runs it: submit_feedback
\* (classifier_service.py lines 312-358) and process_feedback await nothing,
\* so what the handler has seen is the state as it is.
ProcessRequest(request, reachable) ==
    /\ ProcessSeen(request, reachable, Seen(feedback_count, WEIGHTS), MaxFeedback)
    /\ UNCHANGED tasks

\* process_feedback for the requests whose records are well formed, with the
\* record store answering the lookup.
ProcessFeedback ==
    \E request \in FeedbackRequests : ProcessRequest(request, TRUE)

\* process_feedback for every request, the lookup answered or not.
ProcessFeedbackAll ==
    \E request \in AllFeedbackRequests, reachable \in BOOLEAN :
       ProcessRequest(request, reachable)

\* The reset that leaves the counter as it is.
ResetLearning_history_only ==
    /\ feedback_history' = <<>>
    /\ UNCHANGED <<feedback_count, weights_version, feedback_result, events_total>>
    /\ UNCHANGED <<decide_vars, singleton_vars, store_vars, call_vars>>

\* The reset that also starts the version again.
ResetLearning_version ==
    /\ feedback_history' = <<>>
    /\ feedback_count' = 0
    /\ weights_version' = 1
    /\ UNCHANGED <<feedback_result, events_total>>
    /\ UNCHANGED <<decide_vars, singleton_vars, store_vars, call_vars>>

\* The reset that also puts the weights and thresholds back.
ResetLearning_revert ==
    /\ feedback_history' = <<>>
    /\ feedback_count' = 0
    /\ WEIGHTS' = DefaultWeights
    /\ THRESHOLDS' = DefaultThresholds
    /\ UNCHANGED <<LEARNING_CONFIG, weights_version, feedback_result, events_total>>
    /\ UNCHANGED <<decide_vars, store_vars, call_vars>>

\* reset_learning (scoring_engine.py lines 256-261).
ResetLearning ==
    /\ feedback_history' = <<>>
    /\ feedback_count' = 0
    /\ UNCHANGED <<weights_version, feedback_result, events_total>>
    /\ UNCHANGED <<decide_vars, singleton_vars, store_vars, call_vars>>

\* ---------------------------------------------------- configuration API

\* The X-Config-Api-Key header of a request: absent, empty, or a key.
ApiHeaders == {None, Some(""), Some("k1"), Some("k2")}

\* What os.getenv("CONFIG_API_KEY") gives when a request arrives: "" stands
\* for unset or empty, both false at line 34.
ApiSecrets == {"", "k1"}

\* The operations behind verify_api_key: GET "", "/weights" and "/thresholds"
\* are "get", then PUT "", POST "/reload", POST "/reset", GET "/diff" and
\* POST "/sync-from-ci4".
ApiEndpoints == {"get", "update", "reload", "reset", "diff", "sync"}

\* A key check that lets every request through while no secret is set.
verify_api_key_open(x_config_api_key, expected) ==
    IF x_config_api_key = None THEN 422
    ELSE IF expected = "" THEN 200
    ELSE IF x_config_api_key[1] # expected THEN 403
    ELSE 200

\* verify_api_key (config_api.py lines 19-46), as the status of its outcome:
\* 422 for a request without the header (Header(...) is required), 503
\* without a secret, 403 for another key, 200 when it returns True.
verify_api_key(x_config_api_key, expected) ==
    IF x_config_api_key = None THEN 422
    ELSE IF expected = "" THEN 503
    ELSE IF x_config_api_key[1] # expected THEN 403
    ELSE 200

\* PUT "" (lines 141-186): validate_safety, then with dry_run the return at
\* line 146, else the store's update_config with persist=True.  The call to
\* update_base_config at line 167 comes after update_config has returned.
UpdateEndpoint(dry_run) ==
    IF dry_run \/ lock # "free"
    THEN ValidateSafety
    ELSE UpdateConfig /\ store_call'.args.persist

\* POST "/reset" (lines 229-254): the store's reset_to_defaults, and when it
\* has returned and CI4 is enabled, update_model_weights with the defaults
\* it returned.  The call is made at line 237; awaiting what it returned
\* raises a TypeError that line 243 catches.
ResetEndpoint ==
    /\ ResetWith(TRUE)
    /\ ci4_call' =
          IF store_call'.outcome = "returned" /\ CI4_CONFIG.enabled
          THEN Ci4Call("update_model_weights",
                       [weights |-> store_call'.result["WEIGHTS"],
                        thresholds |-> store_call'.result["THRESHOLDS"]],
                       lock')
          ELSE NoCi4Call
    /\ UNCHANGED tasks

\* POST "/sync-from-ci4" (lines 337-368): a 400 when CI4 is not enabled; else
\* get_model_weights is called at line 344 and what it returned is awaited,
\* which is not awaitable: the TypeError becomes a 500 at line 368 before the
\* store's update_config is called.
SyncEndpoint ==
    /\ store_call' = Call("sync_from_ci4", "raised",
                          [status_code |-> IF CI4_CONFIG.enabled THEN 500 ELSE 400])
    /\ ci4_call' =
          IF CI4_CONFIG.enabled
          THEN Ci4Call("get_model_weights", NoPayload, lock)
          ELSE NoCi4Call
    /\ UNCHANGED <<lock, runtime_overrides, config_file, backup_file, audit_log>>
    /\ UNCHANGED <<decide_vars, singleton_vars, engine_vars, tasks>>

\* The body of an endpoint, up to its return or to the point where it waits.
ApiHandler(endpoint) ==
    CASE endpoint \in {"get", "diff"} -> GetConfig
      [] endpoint = "update" -> \E dry_run \in BOOLEAN : UpdateEndpoint(dry_run)
      [] endpoint = "reload" -> Reload
      [] endpoint = "reset" -> ResetEndpoint
      [] endpoint = "sync" -> SyncEndpoint

\* One request to the configuration API: the dependency verify_api_key, then
\* the endpoint.  A rejected request is recorded as the last call.
ApiRequest(endpoint, x_config_api_key, expected) ==
    LET status == verify_api_key(x_config_api_key, expected)
    IN IF status = 200
       THEN ApiHandler(endpoint)
       ELSE /\ store_call' = Call("verify_api_key", "raised",
                                  [status_code |-> status])
            /\ UNCHANGED <<lock, runtime_overrides, config_file, backup_file,
                           audit_log>>
            /\ UNCHANGED <<decide_vars, singleton_vars, engine_vars, call_vars>>

ApiCall(endpoint) ==
    \E x_config_api_key \in ApiHeaders, expected \in ApiSecrets :
       ApiRequest(endpoint, x_config_api_key, expected)

\* ------------------------------------------------------------ event loop

\* The /feedback requests at hand.  Each is handled by its own task on the
\* one event loop of the process.
TaskIds == 1..MaxTasks

\* A task not yet created.
IdleTask == [pc |-> "idle", request |-> <<>>, seen |-> Seen(0, EmptyConfig)]

NoTasks == [t \in TaskIds |-> IdleTask]

\* The requests of a run on the event loop: those whose records are known.
LoopRequests == {request \in FeedbackRequests : request[1] \in ClassificationIds}

\* An event loop that lets a handler start while another is running.
loop_free_preemptive(T) == TRUE

\* Whether the event loop can start a handler: submit_feedback
\* (classifier_service.py lines 312-358) is a coroutine that awaits nothing
\* and calls process_feedback directly, so a handler that has started runs to
\* its return before the loop starts another.
loop_free(T) == \A u \in DOMAIN T : T[u].pc # "running"

\* A /feedback request arrives and its task is created.
Submit(t) ==
    /\ tasks[t].pc = "idle"
    /\ \E request \in LoopRequests :
          tasks' = [tasks EXCEPT ![t] = [pc |-> "pending", request |-> request,
                                         seen |-> Seen(0, EmptyConfig)]]
    /\ UNCHANGED <<decide_vars, singleton_vars, engine_vars, store_vars, ci4_call>>

\* The loop starts the handler of a pending task; the handler reads the
\* engine's state.
Begin(t) ==
    /\ tasks[t].pc = "pending"
    /\ loop_free(tasks)
    /\ tasks' = [tasks EXCEPT ![t].pc = "running",
                              ![t].seen = Seen(feedback_count, WEIGHTS)]
    /\ UNCHANGED <<decide_vars, singleton_vars, engine_vars, store_vars, ci4_call>>

\* The handler writes what it computed from what it read, and returns.
Complete(t) ==
    /\ tasks[t].pc = "running"
    /\ ProcessSeen(tasks[t].request, TRUE, tasks[t].seen, MaxTasks)
    /\ tasks' = [tasks EXCEPT ![t].pc = "done"]

\* ------------------------------------------------------- specifications

\* A LEARNING_CONFIG section that recalibrates on every event once five were
\* seen, and syncs on every third.
EagerLearning ==
    [reinforce_factor |-> 20, penalize_factor |-> -50, reward_factor |-> 50,
     threshold_recalc_interval |-> 1, min_feedback_for_update |-> 5,
     weight_update_interval |-> 3]

\* Weights with leaves at and near the lower ends of their ranges.
LowWeights ==
    [DefaultWeights EXCEPT !["AR"]["clip_bonus"] = 0,
                           !["DOC"]["clip_factor"] = 105,
                           !["TP"]["clip_factor"] = 50]

\* The config.json files found at startup.
EagerFile ==
    ValidFile([s \in {"WEIGHTS", "LEARNING_CONFIG"} |->
                 CASE s = "WEIGHTS" -> LowWeights
                   [] s = "LEARNING_CONFIG" -> EagerLearning])

ThresholdsFile ==
    ValidFile([s \in {"THRESHOLDS"} |->
                 [c \in Classes |->
                    CASE c = "arbeitsbericht" -> 600
                      [] c = "typeplate" -> 400
                      [] c = "document" -> 200
                      [] c = "photo" -> 45]])

\* A file whose "photo" threshold, 1.25, is exactly 10% above a 25th
\* percentile the feedback can produce (1.125), whose
\* min_feedback_for_update is above the minimum sample count, and whose
\* learning factors are all 0, the end of their ranges.
HysteresisFile ==
    ValidFile([s \in {"THRESHOLDS", "LEARNING_CONFIG"} |->
                 CASE s = "THRESHOLDS" ->
                        [DefaultThresholds EXCEPT !["photo"] = 125]
                   [] s = "LEARNING_CONFIG" ->
                        [reinforce_factor |-> 0, penalize_factor |-> 0,
                         reward_factor |-> 0, threshold_recalc_interval |-> 1,
                         min_feedback_for_update |-> 6,
                         weight_update_interval |-> 50]])

\* A file with a CI4_CONFIG section, as reset_to_defaults writes one, from a
\* run under another environment.
Ci4File ==
    ValidFile([s \in {"CI4_CONFIG"} |->
                 [base_url |-> "http://ci4.example/api/v1", api_key |-> "k1",
                  enabled |-> FALSE]])

InitialFiles == {AbsentFile, EagerFile}

StoreFiles == {AbsentFile, CorruptFile, EagerFile, ThresholdsFile, Ci4File}

Init ==
    /\ scores = [k \in ScoreKeys |-> 0]
    /\ prediction = NoPrediction
    /\ THRESHOLDS = DefaultThresholds
    /\ WEIGHTS = DefaultWeights
    /\ LEARNING_CONFIG = DefaultLearningConfig
    /\ feedback_history = <<>>
    /\ feedback_count = 0
    /\ weights_version = 1
    /\ feedback_result = NoFeedback
    /\ events_total = 0
    /\ lock = "free"
    /\ runtime_overrides = EmptyConfig
    /\ config_file \in InitialFiles
    /\ backup_file = AbsentFile
    /\ audit_log = <<>>
    /\ store_call = NoCall
    /\ ci4_call = NoCi4Call
    /\ tasks = NoTasks

\* The same, over every state config.json and its backup can be found in.
InitStore ==
    /\ scores = [k \in ScoreKeys |-> 0]
    /\ prediction = NoPrediction
    /\ THRESHOLDS = DefaultThresholds
    /\ WEIGHTS = DefaultWeights
    /\ LEARNING_CONFIG = DefaultLearningConfig
    /\ feedback_history = <<>>
    /\ feedback_count = 0
    /\ weights_version = 1
    /\ feedback_result = NoFeedback
    /\ events_total = 0
    /\ lock = "free"
    /\ runtime_overrides = EmptyConfig
    /\ config_file \in StoreFiles
    /\ backup_file \in StoreFiles
    /\ audit_log = <<>>
    /\ store_call = NoCall
    /\ ci4_call = NoCi4Call
    /\ tasks = NoTasks

\* The learning engine under feedback, with the reload that brings the file's
\* LEARNING_CONFIG into the singleton.
Next ==
    \/ ProcessFeedback
    \/ ResetLearning
    \/ (events_total <= MaxReloadAt /\ Reload)

Spec == Init /\ [][Next]_vars

\* The feedback processor under every kind of request: known, unknown and
\* malformed records, with each call to the record store succeeding or
\* failing.
NextFeedback ==
    \/ (events_total < MaxCallFeedback /\ ProcessFeedbackAll)
    \/ ResetLearning
    \/ (events_total <= MaxReloadAt /\ Reload)

SpecFeedback == Init /\ [][NextFeedback]_vars

\* The configuration store behind its API.
NextApi ==
    \/ ApiCall("get")
    \/ ApiCall("update")
    \/ ApiCall("reload")
    \/ ApiCall("reset")
    \/ ApiCall("diff")
    \/ ApiCall("sync")

SpecApi == InitStore /\ [][NextApi]_vars

\* The configuration store with an audit file that may refuse the write.
NextAudit ==
    \/ GetConfig
    \/ UpdateConfig
    \/ \E writable \in BOOLEAN : ReloadWith(writable)
    \/ \E writable \in BOOLEAN : ResetWith(writable) /\ UNCHANGED call_vars

SpecAudit == InitStore /\ [][NextAudit]_vars

\* A run from the default configuration, with no config.json, in which the
\* same correction arrives again and again: records predicted "document" are
\* corrected to "typeplate".
DriftRequests == {<<"c1", "typeplate">>}

InitDrift == Init /\ config_file = AbsentFile

NextDrift ==
    \/ \E request \in DriftRequests :
          /\ ProcessSeen(request, TRUE, Seen(feedback_count, WEIGHTS), MaxDrift)
          /\ UNCHANGED tasks
    \/ ResetLearning

SpecDrift == InitDrift /\ [][NextDrift]_vars

\* Feedback requests in flight together on the event loop.
NextLoop ==
    \/ \E t \in TaskIds : Submit(t)
    \/ \E t \in TaskIds : Begin(t)
    \/ \E t \in TaskIds : Complete(t)

SpecLoop == Init /\ [][NextLoop]_vars

\* The same engine started on the files that make it recalibrate.
InitRecalibration ==
    /\ scores = [k \in ScoreKeys |-> 0]
    /\ prediction = NoPrediction
    /\ THRESHOLDS = DefaultThresholds
    /\ WEIGHTS = DefaultWeights
    /\ LEARNING_CONFIG = DefaultLearningConfig
    /\ feedback_history = <<>>
    /\ feedback_count = 0
    /\ weights_version = 1
    /\ feedback_result = NoFeedback
    /\ events_total = 0
    /\ lock = "free"
    /\ runtime_overrides = EmptyConfig
    /\ config_file \in {EagerFile, HysteresisFile}
    /\ backup_file = AbsentFile
    /\ audit_log = <<>>
    /\ store_call = NoCall
    /\ ci4_call = NoCi4Call
    /\ tasks = NoTasks

NextRecalibration ==
    \/ ProcessFeedback
    \/ ResetLearning
    \/ (events_total <= MaxReloadAt /\ Reload)

SpecRecalibration == InitRecalibration /\ [][NextRecalibration]_vars

\* The classification decision under the thresholds in force.
NextDecide ==
    \/ ClassifyImage
    \/ Reload

InitDecide ==
    /\ scores = [k \in ScoreKeys |-> 0]
    /\ prediction = NoPrediction
    /\ THRESHOLDS = DefaultThresholds
    /\ WEIGHTS = DefaultWeights
    /\ LEARNING_CONFIG = DefaultLearningConfig
    /\ feedback_history = <<>>
    /\ feedback_count = 0
    /\ weights_version = 1
    /\ feedback_result = NoFeedback
    /\ events_total = 0
    /\ lock = "free"
    /\ runtime_overrides = EmptyConfig
    /\ config_file \in {AbsentFile, ThresholdsFile}
    /\ backup_file = AbsentFile
    /\ audit_log = <<>>
    /\ store_call = NoCall
    /\ ci4_call = NoCi4Call
    /\ tasks = NoTasks

SpecDecide == InitDecide /\ [][NextDecide]_vars

\* The configuration store under its callers.
NextStore ==
    \/ GetConfig
    \/ UpdateConfig
    \/ Reload
    \/ ResetToDefaults
    \/ ValidateSafety
    \/ ClearRuntimeOverrides
    \/ (events_total < MaxStoreFeedback /\ ProcessFeedback)

SpecStore == InitStore /\ [][NextStore]_vars

\* The contents _runtime_overrides is given when get_config is taken as a
\* function of its three layers: empty, one leaf that ThresholdsFile also
\* sets, and leaves of two sections that EagerFile also sets.
OverrideLayers ==
    {EmptyConfig,
     [s \in {"THRESHOLDS"} |-> [c \in {"photo"} |-> 70]],
     [s \in {"WEIGHTS", "LEARNING_CONFIG"} |->
        CASE s = "WEIGHTS" -> [k \in {"DOC"} |-> [leaf \in {"clip_factor"} |-> 3000]]
          [] s = "LEARNING_CONFIG" -> [f \in {"reinforce_factor"} |-> 7]]}

InitMerge ==
    /\ scores = [k \in ScoreKeys |-> 0]
    /\ prediction = NoPrediction
    /\ THRESHOLDS = DefaultThresholds
    /\ WEIGHTS = DefaultWeights
    /\ LEARNING_CONFIG = DefaultLearningConfig
    /\ feedback_history = <<>>
    /\ feedback_count = 0
    /\ weights_version = 1
    /\ feedback_result = NoFeedback
    /\ events_total = 0
    /\ lock = "free"
    /\ runtime_overrides \in OverrideLayers
    /\ config_file \in StoreFiles
    /\ backup_file \in StoreFiles
    /\ audit_log = <<>>
    /\ store_call = NoCall
    /\ ci4_call = NoCi4Call
    /\ tasks = NoTasks

\* get_config over every combination of its layers.
NextMerge ==
    \/ GetConfig
    \/ ClearRuntimeOverrides

SpecMerge == InitMerge /\ [][NextMerge]_vars

\* ---------------------------------------------------------------- claims

\* A step that processed a feedback event (the learning ran).
FeedbackStep == events_total' = events_total + 1

\* The entry the last processed event appended.
LastEntry(history) == history[Len(history)]

\* C1: whenever the AR score of a classified image is at or above
\* THRESHOLDS["arbeitsbericht"], the predicted class is "arbeitsbericht",
\* whatever the TP, DOC and PHOTO scores are.
C1_HighPriorityWins ==
    [][ClassifyImage =>
          (scores'["AR"] >= THRESHOLDS["arbeitsbericht"]
              => prediction'.class = "arbeitsbericht")]_vars

\* The spec's example: scores 6, 4, 2, 0 under the thresholds 5, 3, 1.5.
C1_Witness ==
    /\ lock = "free"
    /\ THRESHOLDS = DefaultThresholds
    /\ scores["AR"] = 600 /\ scores["TP"] = 400
    /\ scores["DOC"] = 200 /\ scores["PHOTO"] = 0
    /\ prediction.class = "arbeitsbericht"

\* C2: a call to update_config or reload that starts while the lock is free
\* completes: it returns the merged configuration or raises a validation
\* failure, and does not stay blocked on the lock.
C2_UpdateAndReloadComplete ==
    (store_call.op \in {"update_config", "reload"} /\ store_call.lock_was_free)
        => store_call.outcome \in {"returned", "raised"}

\* C3: with the AR score below its threshold the class is "typeplate" iff TP
\* is strictly above DOC and PHOTO and at or above its threshold, else
\* "document" iff DOC is strictly above PHOTO and at or above its threshold,
\* else "photo".
C3_PriorityOrder ==
    [][(ClassifyImage /\ scores'["AR"] < THRESHOLDS["arbeitsbericht"]) =>
          LET tp_wins == /\ scores'["TP"] > scores'["DOC"]
                         /\ scores'["TP"] > scores'["PHOTO"]
                         /\ scores'["TP"] >= THRESHOLDS["typeplate"]
              doc_wins == /\ scores'["DOC"] > scores'["PHOTO"]
                          /\ scores'["DOC"] >= THRESHOLDS["document"]
          IN /\ prediction'.class \in {"typeplate", "document", "photo"}
             /\ (prediction'.class = "typeplate") <=> tp_wins
             /\ (prediction'.class = "document") <=> (~tp_wins /\ doc_wins)
             /\ (prediction'.class = "photo") <=> (~tp_wins /\ ~doc_wins)]_vars

\* A tie between TP and DOC, both above their thresholds, goes to "document".
C3_Witness ==
    /\ lock = "free"
    /\ THRESHOLDS = DefaultThresholds
    /\ scores["AR"] = 400 /\ scores["TP"] = 400 /\ scores["DOC"] = 400
    /\ prediction.class = "document"

\* C4: after a feedback event whose predicted class differs from the
\* corrected one, every weight leaf of the predicted class's group is at or
\* above the floor 0.1.
C4_PenalizeFloor ==
    [][FeedbackStep =>
          LET entry == LastEntry(feedback_history') IN
          (entry.predicted # entry.correct /\ entry.predicted \in Classes)
              => \A leaf \in DOMAIN WEIGHTS'[class_to_key[entry.predicted]] :
                    WEIGHTS'[class_to_key[entry.predicted]][leaf] >= 100]_vars

\* A leaf that was below the floor, 0.05, is at the floor after the penalty.
C4_Witness ==
    /\ feedback_history # <<>>
    /\ LastEntry(feedback_history).predicted = "typeplate"
    /\ LastEntry(feedback_history).correct = "document"
    /\ events_total = 1
    /\ WEIGHTS["TP"]["clip_factor"] = 100
    /\ WEIGHTS["TP"]["keyword_multiplier"] = 750

\* C5: a feedback event whose predicted class X is the corrected class
\* multiplies every weight leaf of X's group by (1 + reinforce_factor), which
\* raises or holds it, and changes no leaf of another group.
C5_ReinforceOwnGroup ==
    [][FeedbackStep =>
          LET entry == LastEntry(feedback_history') IN
          (entry.predicted = entry.correct /\ entry.predicted \in Classes)
              => LET own == class_to_key[entry.predicted] IN
                 /\ \A leaf \in DOMAIN WEIGHTS[own] :
                      /\ WEIGHTS'[own][leaf] =
                            (WEIGHTS[own][leaf]
                               * (100 + LEARNING_CONFIG.reinforce_factor)) \div 100
                      /\ WEIGHTS'[own][leaf] >= WEIGHTS[own][leaf]
                 /\ DOMAIN WEIGHTS'[own] = DOMAIN WEIGHTS[own]
                 /\ \A key \in ScoreKeys \ {own} : WEIGHTS'[key] = WEIGHTS[key]]_vars

\* Two correct "photo" predictions in a row under the default factors.
C5_Witness ==
    /\ Len(feedback_history) = 2
    /\ events_total = 2
    /\ \A i \in 1..2 : /\ feedback_history[i].predicted = "photo"
                       /\ feedback_history[i].correct = "photo"
    /\ WEIGHTS["PHOTO"]["clip_factor"] = 2205
    /\ WEIGHTS["DOC"] = DefaultWeights["DOC"]

\* C6: a feedback event with predicted class P and a different corrected
\* class C, both known, sets every leaf of P's group to
\* max(old * (1 + penalize_factor), 0.1), multiplies every leaf of C's group
\* by (1 + reward_factor), and leaves the other two groups unchanged.
C6_PenalizeThenReward ==
    [][FeedbackStep =>
          LET entry == LastEntry(feedback_history') IN
          (entry.predicted # entry.correct /\ entry.predicted \in Classes
             /\ entry.correct \in Classes)
              => LET p == class_to_key[entry.predicted]
                     c == class_to_key[entry.correct]
                 IN /\ \A leaf \in DOMAIN WEIGHTS[p] :
                         WEIGHTS'[p][leaf] =
                            Max((WEIGHTS[p][leaf]
                                   * (100 + LEARNING_CONFIG.penalize_factor)) \div 100,
                                100)
                    /\ \A leaf \in DOMAIN WEIGHTS[c] :
                         WEIGHTS'[c][leaf] =
                            (WEIGHTS[c][leaf]
                               * (100 + LEARNING_CONFIG.reward_factor)) \div 100
                    /\ \A key \in ScoreKeys \ {p, c} : WEIGHTS'[key] = WEIGHTS[key]]_vars

\* The spec's scenario: "document" corrected to "photo" as the first event.
C6_Witness ==
    /\ feedback_count = 1
    /\ events_total = 1
    /\ LastEntry(feedback_history).predicted = "document"
    /\ LastEntry(feedback_history).correct = "photo"
    /\ WEIGHTS["DOC"]["clip_factor"] = 1800
    /\ WEIGHTS["PHOTO"]["clip_factor"] = 2200
    /\ WEIGHTS["AR"] = DefaultWeights["AR"]

\* C7: every processed feedback event appends exactly one entry to the
\* history and adds 1 to feedback_count, entries already in the history never
\* change, and feedback_count is the length of the history in every state.
C7_HistoryAndCount ==
    /\ feedback_count = Len(feedback_history)
    /\ [][/\ feedback_count' = Len(feedback_history')
          /\ FeedbackStep =>
                /\ Len(feedback_history') = Len(feedback_history) + 1
                /\ feedback_count' = feedback_count + 1
          /\ \/ feedback_history' = <<>>
             \/ /\ Len(feedback_history') >= Len(feedback_history)
                /\ \A i \in 1..Len(feedback_history) :
                      feedback_history'[i] = feedback_history[i]]_vars

\* Events were processed after a reset.
C7_Witness ==
    /\ feedback_count = 2
    /\ Len(feedback_history) = 2
    /\ events_total = 4

\* C8: weights_version never decreases, and it changes only in a feedback
\* event whose resulting feedback_count is a multiple of
\* threshold_recalc_interval.
C8_VersionMonotone ==
    [][/\ weights_version' >= weights_version
       /\ weights_version' # weights_version =>
             /\ FeedbackStep
             /\ feedback_count' % LEARNING_CONFIG.threshold_recalc_interval = 0]_vars

\* The version two passes reached is kept by a reset.
C8_Witness ==
    /\ weights_version = 3
    /\ feedback_history = <<>>
    /\ feedback_count = 0

\* C9: every feedback event whose feedback_count is a multiple of
\* threshold_recalc_interval adds exactly 1 to weights_version, whether or
\* not a threshold changed and also when the pass returned early.
C9_VersionBumpEveryPass ==
    [][(FeedbackStep
          /\ feedback_count' % LEARNING_CONFIG.threshold_recalc_interval = 0)
          => weights_version' = weights_version + 1]_vars

\* A pass over a history shorter than min_feedback_for_update.
C9_Witness ==
    /\ LEARNING_CONFIG = EagerLearning
    /\ feedback_count = 1
    /\ Len(feedback_history) < LEARNING_CONFIG.min_feedback_for_update
    /\ THRESHOLDS = DefaultThresholds
    /\ weights_version = 2

\* The number of entries of the history that have class c as the corrected
\* class and carry c's score.
SampleCount(history, c) ==
    Cardinality({i \in 1..Len(history) :
                   /\ history[i].correct = c
                   /\ class_to_key[c] \in DOMAIN history[i].scores})

\* C10: a recalibration pass leaves the threshold of a class unchanged when
\* the history holds fewer than 5 entries with that class as the corrected
\* class and its score recorded, whatever the pass does to other classes.
C10_FewSamplesKeepThreshold ==
    [][FeedbackStep =>
          \A c \in Classes :
             SampleCount(feedback_history', c) < 5
                => THRESHOLDS'[c] = THRESHOLDS[c]]_vars

\* The pass at the sixth event moves the "photo" threshold and keeps that of
\* "document", which has an entry without a DOC score.
C10_Witness ==
    /\ Len(feedback_history) = 6
    /\ feedback_history[1].correct = "document"
    /\ SampleCount(feedback_history, "photo") = 5
    /\ SampleCount(feedback_history, "document") = 0
    /\ THRESHOLDS["photo"] # DefaultThresholds["photo"]
    /\ THRESHOLDS["document"] = DefaultThresholds["document"]

\* A step that ran a recalibration pass (line 76).
PassStep ==
    /\ FeedbackStep
    /\ feedback_count' % LEARNING_CONFIG.threshold_recalc_interval = 0

\* Four times the 25th percentile of the scores recorded for class c.
P25x4(history, c) == percentile25_x4(class_scores(history, c))

\* C11 as stated: at a recalibration pass, a class with at least 5 samples
\* whose 25th percentile is 10% or more away from its threshold gets that
\* percentile as its threshold, and weights_version goes up by exactly 1.
C11_UpdateAtTenPercent ==
    [][PassStep =>
          \A c \in Classes :
             (/\ SampleCount(feedback_history', c) >= 5
              /\ 10 * Abs(P25x4(feedback_history', c) - 4 * THRESHOLDS[c])
                    >= 4 * THRESHOLDS[c]
              /\ P25x4(feedback_history', c) # 4 * THRESHOLDS[c])
                => /\ 4 * THRESHOLDS'[c] = P25x4(feedback_history', c)
                   /\ weights_version' = weights_version + 1]_vars

\* C11 amended: at a recalibration pass over a history of at least
\* min_feedback_for_update events, a class with at least 5 samples whose 25th
\* percentile is more than 10% of max(threshold, 0.1) away from its threshold
\* gets that percentile rounded to two decimals as its threshold, and
\* weights_version goes up by exactly 1.
C11_UpdateBeyondTenPercent ==
    [][PassStep =>
          \A c \in Classes :
             (/\ Len(feedback_history') >= LEARNING_CONFIG.min_feedback_for_update
              /\ SampleCount(feedback_history', c) >= 5
              /\ 10 * Abs(P25x4(feedback_history', c) - 4 * THRESHOLDS[c])
                    > 4 * Max(THRESHOLDS[c], 10))
                => /\ 2 * Abs(4 * THRESHOLDS'[c] - P25x4(feedback_history', c)) <= 4
                   /\ weights_version' = weights_version + 1]_vars

\* The "photo" threshold fell from 3.0 to the rounded percentile 1.125 of two
\* scores of 0.5 and four of 3.0.
C11_Witness ==
    /\ Len(feedback_history) = 6
    /\ SampleCount(feedback_history, "photo") = 6
    /\ P25x4(feedback_history, "photo") = 450
    /\ THRESHOLDS["photo"] \in {112, 113}
    /\ weights_version = 7
    /\ LEARNING_CONFIG.min_feedback_for_update = 5

\* The merged configuration as get_config would return it now.
CurrentConfig ==
    merged_config(THRESHOLDS, WEIGHTS, LEARNING_CONFIG, config_file,
                  backup_file, runtime_overrides)

\* C12: an update whose merged result violates the schema is rejected with a
\* validation failure (and changes nothing).
C12_InvalidUpdateRaises ==
    (/\ store_call.op = "update_config"
     /\ store_call.lock_was_free
     /\ ~schema_valid(deep_merge(CurrentConfig, store_call.args.updates)))
        => store_call.outcome = "raised"

\* C13: config.json and its backup change only in update_config with
\* persist=True or in reset_to_defaults; feedback events, update_config with
\* persist=False, reload, get_config and validate_safety leave both as they
\* are.
C13_FileWrittenOnlyOnRequest ==
    [][(config_file' # config_file \/ backup_file' # backup_file)
          => \/ store_call'.op = "reset_to_defaults"
             \/ (store_call'.op = "update_config" /\ store_call'.args.persist)
      ]_vars

\* A feedback event and a reload have happened, and the files found at
\* startup (no reset was logged) are in place.
C13_Witness ==
    /\ events_total = 1
    /\ WEIGHTS["PHOTO"]["clip_factor"] # DefaultWeights["PHOTO"]["clip_factor"]
    /\ store_call.op = "reload"
    /\ audit_log = <<"reload">>
    /\ config_file = ThresholdsFile
    /\ backup_file = CorruptFile

\* The paths to the leaves of a configuration: <<section, key>>, and
\* <<"WEIGHTS", group, key>>.
LeafPaths(config) ==
    UNION {IF s = "WEIGHTS"
           THEN UNION {{<<s, g, k>> : k \in DOMAIN config[s][g]} :
                          g \in DOMAIN config[s]}
           ELSE {<<s, k>> : k \in DOMAIN config[s]} : s \in DOMAIN config}

LeafAt(config, path) ==
    IF Len(path) = 3
    THEN config[path[1]][path[2]][path[3]]
    ELSE config[path[1]][path[2]]

\* The three layers as they are now: the singleton's sections, the persisted
\* configuration that loads (the primary, or the backup for a corrupt
\* primary), and the runtime overrides.
DefaultsLayer ==
    [s \in Sections |->
        IF s = "THRESHOLDS" THEN THRESHOLDS
        ELSE IF s = "WEIGHTS" THEN WEIGHTS
        ELSE IF s = "LEARNING_CONFIG" THEN LEARNING_CONFIG ELSE CI4_CONFIG]

PersistedLayer ==
    IF config_file.state = "valid" THEN config_file.data
    ELSE IF config_file.state = "corrupt" /\ backup_file.state = "valid"
         THEN backup_file.data
         ELSE EmptyConfig

\* C14: the snapshot get_config returns has exactly the leaves of the three
\* layers, each with the value of the highest layer that defines it (runtime
\* overrides over persisted file over defaults), and a second get_config with
\* nothing written in between returns the same snapshot.
C14_LayerPrecedence ==
    [][/\ (GetConfig /\ store_call'.outcome = "returned")
          => LET snapshot == store_call'.result
                 top == LeafPaths(runtime_overrides')
                 mid == LeafPaths(PersistedLayer')
                 low == LeafPaths(DefaultsLayer')
             IN /\ LeafPaths(snapshot) = top \cup mid \cup low
                /\ \A path \in LeafPaths(snapshot) :
                      LeafAt(snapshot, path) =
                         IF path \in top THEN LeafAt(runtime_overrides', path)
                         ELSE IF path \in mid THEN LeafAt(PersistedLayer', path)
                         ELSE LeafAt(DefaultsLayer', path)
       /\ (/\ store_call.op = "get_config" /\ store_call.outcome = "returned"
           /\ GetConfig /\ store_call'.outcome = "returned")
             => store_call'.result = store_call.result]_vars

\* The override of "photo" wins over the file's value, the file's "document"
\* wins over the default, and the weights are the defaults.
C14_Witness ==
    /\ store_call.op = "get_config"
    /\ store_call.outcome = "returned"
    /\ config_file = ThresholdsFile
    /\ runtime_overrides # EmptyConfig
    /\ store_call.result["THRESHOLDS"]["photo"] = 70
    /\ store_call.result["THRESHOLDS"]["document"] = 200
    /\ store_call.result["WEIGHTS"] = DefaultWeights

\* C15: in the snapshot get_config returns, the base URL, API key and enabled
\* flag of CI4_CONFIG are the values the environment supplied.
C15_EnvironmentWins ==
    (store_call.op = "get_config" /\ store_call.outcome = "returned")
        => \A key \in {"base_url", "api_key", "enabled"} :
              store_call.result["CI4_CONFIG"][key] = CI4_CONFIG[key]

\* C16: when the write of reset_to_defaults fails or the process stops in it,
\* a config.json that was valid before is afterwards the complete previous
\* file or the complete new one.
C16_PrimaryOldOrNew ==
    [][(/\ ResetToDefaults
        /\ store_call'.outcome \in {"raised", "stopped"}
        /\ config_file.state = "valid")
          => \/ config_file' = config_file
             \/ config_file' =
                   ValidFile(get_defaults(THRESHOLDS, WEIGHTS, LEARNING_CONFIG))]_vars

\* C17: after a persisted write that succeeded, the backup file exists and
\* is schema-valid.
C17_ValidBackupAfterWrite ==
    [][(ResetToDefaults /\ store_call'.outcome = "returned")
          => backup_file'.state = "valid"]_vars

\* The snapshot is `layer` laid over the defaults, leaf by leaf.
Over(snapshot, layer) ==
    /\ LeafPaths(snapshot) = LeafPaths(layer) \cup LeafPaths(DefaultsLayer)
    /\ \A path \in LeafPaths(snapshot) :
          LeafAt(snapshot, path) = IF path \in LeafPaths(layer)
                                   THEN LeafAt(layer, path)
                                   ELSE LeafAt(DefaultsLayer, path)

HardcodedDefaults ==
    get_defaults(DefaultThresholds, DefaultWeights, DefaultLearningConfig)

\* C19: after reset_to_defaults has returned, the runtime overrides are
\* empty, and config.json and the returned snapshot are the hardcoded
\* defaults, whatever feedback events and reloads came before.
C19_ResetRestoresHardcoded ==
    [][(ResetToDefaults /\ store_call'.outcome = "returned")
          => /\ runtime_overrides' = EmptyConfig
             /\ config_file' = ValidFile(HardcodedDefaults)
             /\ store_call'.result = HardcodedDefaults]_vars

\* C20: a reload started with the lock free returns; with clear_runtime=True
\* it leaves the runtime overrides empty and returns the defaults merged
\* with the persisted file, with clear_runtime=False it leaves the runtime
\* overrides as they were; config.json is not modified.
C20_ReloadFrame ==
    [][(Reload /\ store_call'.lock_was_free)
          => /\ config_file' = config_file
             /\ IF store_call'.args.clear_runtime
                THEN runtime_overrides' = EmptyConfig
                ELSE runtime_overrides' = runtime_overrides
             /\ store_call'.outcome = "returned"
             /\ store_call'.args.clear_runtime
                   => Over(store_call'.result, PersistedLayer')]_vars

\* C21: an update_config with persist=True whose merged result is valid,
\* started with the lock free, returns, and the configuration read back
\* afterwards has, at every leaf of the update, the value written, or the
\* runtime override's value where a runtime override sets that leaf.
C21_RoundTrip ==
    [][(/\ UpdateConfig
        /\ store_call'.lock_was_free
        /\ store_call'.args.persist
        /\ schema_valid(deep_merge(CurrentConfig, store_call'.args.updates)))
          => /\ store_call'.outcome = "returned"
             /\ \A path \in LeafPaths(store_call'.args.updates) :
                  LeafAt(CurrentConfig', path) =
                     IF path \in LeafPaths(runtime_overrides')
                     THEN LeafAt(runtime_overrides', path)
                     ELSE LeafAt(store_call'.args.updates, path)]_vars

\* The snapshots at hand after a get_config: the one it returned and the
\* three layers it was merged from.
SnapshotsAfterGet ==
    {store_call.result, DefaultsLayer, PersistedLayer, runtime_overrides}

\* C22: merging a snapshot with the empty update, or with itself, gives the
\* snapshot back, and the merges get_config makes leave their arguments (the
\* runtime overrides and the sections the defaults were copied from) as
\* they were.
C22_MergeIdempotent ==
    [][(GetConfig /\ store_call'.outcome = "returned")
          => /\ \A s \in SnapshotsAfterGet' :
                  /\ deep_merge(s, EmptyConfig) = s
                  /\ deep_merge(s, s) = s
             /\ UNCHANGED <<runtime_overrides, singleton_vars>>]_vars

\* A get_config that merged all three layers has returned.
C22_Witness ==
    /\ store_call.op = "get_config"
    /\ store_call.outcome = "returned"
    /\ config_file = EagerFile
    /\ runtime_overrides \notin {EmptyConfig, store_call.result}
    /\ store_call.result \notin {DefaultsLayer, PersistedLayer}

\* C23: process_feedback for an id the record store does not know returns an
\* error status and stops there: store_feedback is not called, no push is
\* attempted, and feedback_count, the history, weights_version, the weights
\* and the thresholds are unchanged.
C23_UnknownIdStops ==
    [][\A request \in AllFeedbackRequests, reachable \in BOOLEAN :
         (/\ request[1] \notin ClassificationIds \cup MalformedIds
          /\ ProcessRequest(request, reachable))
            => /\ feedback_result'.status = "error"
               /\ ~feedback_result'.store_attempted
               /\ ~feedback_result'.push_attempted
               /\ ~feedback_result'.weights_updated
               /\ UNCHANGED <<feedback_count, feedback_history, weights_version,
                              WEIGHTS, THRESHOLDS>>]_vars

\* The error was returned with learned state at hand: three events are in
\* the history and the weights have moved.
C23_Witness ==
    /\ feedback_result.status = "error"
    /\ ~feedback_result.store_attempted
    /\ feedback_count = 3
    /\ Len(feedback_history) = 3
    /\ WEIGHTS # DefaultWeights

\* C24: when the original classification was found and store_feedback failed,
\* process_feedback still runs the learning step (feedback_count goes up by
\* one, the weights are adjusted for the predicted and the corrected class)
\* and returns status "success"; and every call of process_feedback, whatever
\* calls to the record store failed, ends with a returned result, "success"
\* or "error".
C24_StoreFailureNotFatal ==
    [][/\ \A request \in AllFeedbackRequests :
            (/\ request[1] \in ClassificationIds
             /\ ProcessRequest(request, TRUE)
             /\ feedback_result'.store_attempted
             /\ ~feedback_result'.stored)
               => /\ feedback_result'.status = "success"
                  /\ feedback_count' = feedback_count + 1
                  /\ feedback_result'.feedback_count = feedback_count + 1
                  /\ WEIGHTS' = adjusted_weights(
                                   WEIGHTS, ci4_classification[request[1]].class,
                                   request[2], LEARNING_CONFIG)
       /\ ProcessFeedbackAll
            => feedback_result'.status \in {"success", "error"}]_vars

\* An event was learned from although its correction could not be stored.
C24_Witness ==
    /\ feedback_result.status = "success"
    /\ feedback_result.store_attempted
    /\ ~feedback_result.stored
    /\ feedback_result.feedback_count = feedback_count
    /\ feedback_count = 2
    /\ WEIGHTS # DefaultWeights

\* C25: a processed feedback event attempts the push to the record store
\* exactly when feedback_count after it is a multiple of
\* LEARNING_CONFIG["weight_update_interval"]; at any other count no push is
\* attempted and weights_updated is false.
C25_PushAtSyncInterval ==
    [][FeedbackStep
          => LET boundary ==
                    feedback_count' % LEARNING_CONFIG.weight_update_interval = 0
             IN /\ feedback_result'.push_attempted <=> boundary
                /\ ~boundary => ~feedback_result'.weights_updated]_vars

\* The third event under a sync interval of three, with a recalibration
\* interval of one: the push was attempted, after two events without one.
C25_Witness ==
    /\ feedback_result.status = "success"
    /\ feedback_result.push_attempted
    /\ feedback_result.feedback_count = 3
    /\ feedback_count = 3
    /\ LEARNING_CONFIG.weight_update_interval = 3
    /\ LEARNING_CONFIG.threshold_recalc_interval = 1

\* C26: when a sync boundary is reached and the push to the record store
\* fails, process_feedback returns status "success" with weights_updated
\* false, and the learning step's effects stay: feedback_count is one more,
\* the history is one entry longer and the weights are the adjusted ones.
\* weights_updated is true only if the push was attempted and acknowledged.
C26_PushFailureDegrades ==
    [][/\ \A request \in AllFeedbackRequests :
            (/\ request[1] \in ClassificationIds
             /\ ProcessRequest(request, TRUE)
             /\ feedback_result'.push_attempted
             /\ ~feedback_result'.push_acknowledged)
               => /\ feedback_result'.status = "success"
                  /\ ~feedback_result'.weights_updated
                  /\ feedback_count' = feedback_count + 1
                  /\ Len(feedback_history') = Len(feedback_history) + 1
                  /\ WEIGHTS' = adjusted_weights(
                                   WEIGHTS, ci4_classification[request[1]].class,
                                   request[2], LEARNING_CONFIG)
       /\ (ProcessFeedbackAll /\ feedback_result'.weights_updated)
            => /\ feedback_result'.push_attempted
               /\ feedback_result'.push_acknowledged]_vars

\* The push of the third event failed; the event is counted, recorded and
\* learned from.
C26_Witness ==
    /\ feedback_result.status = "success"
    /\ feedback_result.push_attempted
    /\ ~feedback_result.push_acknowledged
    /\ ~feedback_result.weights_updated
    /\ feedback_count = 3
    /\ Len(feedback_history) = 3
    /\ WEIGHTS # DefaultWeights

\* C27: reset_learning sets feedback_count to 0 and empties the history, and
\* leaves every weight and every threshold as it was: what was learned is not
\* reverted.
C27_ResetKeepsLearned ==
    [][ResetLearning
          => /\ feedback_count' = 0
             /\ feedback_history' = <<>>
             /\ WEIGHTS' = WEIGHTS
             /\ THRESHOLDS' = THRESHOLDS]_vars

\* After a reset that followed a recalibration: the history and the counter
\* are empty, the weights and a threshold are the learned ones.
C27_Witness ==
    /\ feedback_count = 0
    /\ feedback_history = <<>>
    /\ events_total >= 5
    /\ WEIGHTS # DefaultWeights
    /\ WEIGHTS # LowWeights
    /\ THRESHOLDS # DefaultThresholds

\* What get_statistics would return now.
CurrentStatistics == get_statistics(feedback_history, weights_version, THRESHOLDS)

\* The sum of the tallies of a statistics result (0 when it has none).
RECURSIVE tally_sum(_, _)
tally_sum(tally, keys) ==
    IF keys = {}
    THEN 0
    ELSE LET k == CHOOSE x \in keys : TRUE
         IN tally[k] + tally_sum(tally, keys \ {k})

ConfusionTotal(stats) ==
    IF "confusion_matrix" \in DOMAIN stats
    THEN tally_sum(stats.confusion_matrix, DOMAIN stats.confusion_matrix)
    ELSE 0

\* The parts of C28 apart from the accuracy: the total is the length of the
\* history since the last reset, an empty history gives total 0 and accuracy
\* 0.0, and the confusion tallies, each the number of entries with that
\* (predicted, corrected) pair, sum to the total.
StatisticsTallies(stats) ==
    /\ stats.total_feedback = Len(feedback_history)
    /\ feedback_history = <<>> => stats.accuracy = 0
    /\ ConfusionTotal(stats) = stats.total_feedback
    /\ "confusion_matrix" \in DOMAIN stats =>
          \A i \in DOMAIN feedback_history :
             stats.confusion_matrix[<<feedback_history[i].predicted,
                                      feedback_history[i].correct>>] >= 1

\* C28 as stated: the accuracy get_statistics reports is the number of
\* entries predicted correctly divided by the number of entries.
C28_AccuracyExact ==
    \A stats \in CurrentStatistics :
       /\ StatisticsTallies(stats)
       /\ stats.accuracy * stats.total_feedback
             = 1000 * correct_predictions(feedback_history)

\* C28, amended: the accuracy get_statistics reports is that quotient
\* rounded to three decimals (within half a thousandth of it).
C28_AccuracyRounded ==
    \A stats \in CurrentStatistics :
       /\ StatisticsTallies(stats)
       /\ 2 * Abs(stats.accuracy * stats.total_feedback
                  - 1000 * correct_predictions(feedback_history))
             <= stats.total_feedback

\* Two of three entries were predicted correctly: 0.667 is reported.
C28_Witness ==
    /\ Len(feedback_history) = 3
    /\ correct_predictions(feedback_history) = 2
    /\ events_total > 3
    /\ \E stats \in CurrentStatistics :
          /\ stats.accuracy = 667
          /\ stats.total_feedback = 3
          /\ DOMAIN stats.confusion_matrix =
                {<<"photo", "photo">>, <<"document", "photo">>}

\* C30: the confidence of a decision is min(AR / 10, 0.95) for
\* "arbeitsbericht", min(TP / 15, 0.95) for "typeplate", min(DOC / 8, 0.95)
\* for "document" and 0.5 for "photo"; it is never above 0.95.
C30_ConfidenceScale ==
    [][ClassifyImage
          => LET class == prediction'.class
                 confidence == prediction'.confidence
             IN /\ class = "arbeitsbericht"
                     => confidence = Min(12 * scores'["AR"], 11400)
                /\ class = "typeplate"
                     => confidence = Min(8 * scores'["TP"], 11400)
                /\ class = "document"
                     => confidence = Min(15 * scores'["DOC"], 11400)
                /\ class = "photo" => confidence = 6000
                /\ confidence <= 11400]_vars

\* A "typeplate" above the cap: TP = 15.0 would give 1.0.
C30_Witness ==
    /\ prediction.class = "typeplate"
    /\ scores["TP"] = 1500
    /\ prediction.confidence = 11400

\* The store's state: everything but the record of the last call.
StoreState ==
    <<lock, runtime_overrides, config_file, backup_file, audit_log,
      THRESHOLDS, WEIGHTS, LEARNING_CONFIG>>

\* C29: a request to a configuration operation (get, update, reload, reset,
\* diff, sync) whose key is not the configured secret, or that arrives while
\* no secret is configured, is rejected and changes nothing in the store.
C29_KeyRequired ==
    [][\A endpoint \in ApiEndpoints, header \in ApiHeaders, expected \in ApiSecrets :
         (/\ header # Some(expected) \/ expected = ""
          /\ ApiRequest(endpoint, header, expected))
            => /\ store_call'.op = "verify_api_key"
               /\ store_call'.outcome = "raised"
               /\ store_call'.result.status_code \in {403, 422, 503}
               /\ StoreState' = StoreState
               /\ UNCHANGED engine_vars]_vars

\* A request was rejected for want of a configured secret, on a store whose
\* config.json was written by an authorized reset.
C29_Witness ==
    /\ store_call.op = "verify_api_key"
    /\ store_call.result.status_code = 503
    /\ lock = "free"
    /\ Len(audit_log) = 1
    /\ config_file = ValidFile(HardcodedDefaults)

\* C31: when the file write inside reset_to_defaults (or inside an update with
\* persist=True) fails at any of its steps, the snapshot get_config returns
\* afterwards, the runtime overrides and the parameters the scoring engine
\* reads are the same as before the call.
C31_FailedWriteChangesNothing ==
    [][(ResetToDefaults /\ store_call'.outcome = "raised")
          => /\ CurrentConfig' = CurrentConfig
             /\ runtime_overrides' = runtime_overrides
             /\ UNCHANGED singleton_vars]_vars

\* The tasks whose handler has returned.
Done(T) == {u \in DOMAIN T : T[u].pc = "done"}

C33_NoRecordStoreCallUnderLock ==
    [][\A endpoint \in {"update", "reset", "sync"} :
          (ApiCall(endpoint) /\ ci4_call' # ci4_call /\ ci4_call'.op # "none")
             => ci4_call'.lock = "free"]_vars

\* The record _log_change is called with by update_config.
update_action(persist) == IF persist THEN "update_persisted" ELSE "update_runtime"

\* C34: every successful update (a valid one started with the lock free,
\* persist true or false), every reload and every reset appends exactly one
\* record to the audit log, no step removes or rewrites an earlier record,
\* and when the audit file cannot be written the operation still takes
\* effect.
C34_AuditTrail ==
    [][/\ Len(audit_log') >= Len(audit_log)
       /\ SubSeq(audit_log', 1, Len(audit_log)) = audit_log
       /\ (/\ UpdateConfig
           /\ store_call'.lock_was_free
           /\ schema_valid(deep_merge(CurrentConfig, store_call'.args.updates)))
             => audit_log' =
                   Append(audit_log, update_action(store_call'.args.persist))
       /\ (ReloadWith(TRUE) /\ lock = "free")
             => audit_log' = Append(audit_log, "reload")
       /\ (ResetWith(TRUE) /\ store_call'.outcome = "returned")
             => audit_log' = Append(audit_log, "reset_to_defaults")
       /\ (ReloadWith(FALSE) /\ lock = "free")
             => /\ lock' = "held"
                /\ store_call'.args.clear_runtime
                      => runtime_overrides' = EmptyConfig
       /\ (ResetWith(FALSE) /\ lock = "free" /\ store_call'.args.failure = "none")
             => /\ store_call'.outcome = "returned"
                /\ config_file'.state = "valid"
                /\ runtime_overrides' = EmptyConfig]_vars

\* C35: after every step of a run of feedback events, updates, reloads and
\* resets, the WEIGHTS and THRESHOLDS the classification decision reads are
\* those of the merged snapshot get_config returns.
C35_EngineReadsStore ==
    [][/\ CurrentConfig'["WEIGHTS"] = WEIGHTS'
       /\ CurrentConfig'["THRESHOLDS"] = THRESHOLDS']_vars

\* C36: an update_config with persist=True whose merged result is valid,
\* started with the lock free, returns and leaves in config.json the defaults
\* merged with the previous persisted content and the update, and nothing
\* that came from the runtime overrides only.
C36_OverridesNotPersisted ==
    [][(/\ UpdateConfig
        /\ store_call'.lock_was_free
        /\ store_call'.args.persist
        /\ schema_valid(deep_merge(CurrentConfig, store_call'.args.updates)))
          => /\ store_call'.outcome = "returned"
             /\ config_file' =
                   ValidFile(deep_merge(deep_merge(DefaultsLayer, PersistedLayer),
                                        store_call'.args.updates))]_vars

\* C37: after any sequence of feedback events from the default configuration
\* every weight leaf is inside the range the schema declares for it: the
\* merged snapshot passes the validation update_config applies.
C37_WeightsStayInSchema == schema_valid(CurrentConfig)

\* A step that processed a feedback event whose predicted class was wrong,
\* both classes known: the step that penalizes.
PenalizeStep ==
    /\ FeedbackStep
    /\ LastEntry(feedback_history').predicted # LastEntry(feedback_history').correct
    /\ LastEntry(feedback_history').predicted \in Classes
    /\ LastEntry(feedback_history').correct \in Classes

\* The group the last event penalized.
PenalizedKey(history) == class_to_key[LastEntry(history).predicted]

\* C38 as stated: a penalize step never increases a leaf of the penalized
\* group, for every schema-valid prior value, values below the floor
\* included.
C38_PenalizeNeverIncreases ==
    [][PenalizeStep =>
          \A leaf \in DOMAIN WEIGHTS[PenalizedKey(feedback_history')] :
             LET p == PenalizedKey(feedback_history')
             IN in_range(WEIGHTS[p][leaf], WeightRanges[p][leaf])
                   => WEIGHTS'[p][leaf] <= WEIGHTS[p][leaf]]_vars

\* C38, amended: a penalize step never increases a leaf of the penalized
\* group whose schema-valid prior value is at or above the floor 0.1.
C38_PenalizeNeverIncreasesFromFloor ==
    [][PenalizeStep =>
          \A leaf \in DOMAIN WEIGHTS[PenalizedKey(feedback_history')] :
             LET p == PenalizedKey(feedback_history')
             IN (/\ in_range(WEIGHTS[p][leaf], WeightRanges[p][leaf])
                 /\ WEIGHTS[p][leaf] >= MIN_WEIGHT)
                   => WEIGHTS'[p][leaf] <= WEIGHTS[p][leaf]]_vars

\* The first event after the reload of the file with the low weights
\* penalized "typeplate": keyword_multiplier, above the floor, was halved, and
\* clip_factor, 0.05 before the step, is at the floor.
C38_Witness ==
    /\ feedback_count = 1
    /\ events_total = 1
    /\ LastEntry(feedback_history).predicted = "typeplate"
    /\ LastEntry(feedback_history).correct = "document"
    /\ LEARNING_CONFIG = EagerLearning
    /\ WEIGHTS["TP"]["keyword_multiplier"] = 750
    /\ WEIGHTS["TP"]["clip_factor"] = MIN_WEIGHT

\* C39: within one feedback event the entry is appended and counted, the
\* weights are adjusted and, at a recalibration boundary, the thresholds are
\* recalibrated from the history that holds the new entry, all before the
\* push: the weights and thresholds sent at a sync boundary are the values
\* after that event's adjustment and recalibration.
C39_PushAfterLearning ==
    [][(FeedbackStep /\ feedback_result'.push_attempted)
          => LET entry == LastEntry(feedback_history')
             IN /\ ci4_call'.op = "update_model_weights"
                /\ Len(feedback_history') = Len(feedback_history) + 1
                /\ feedback_count' = feedback_count + 1
                /\ ci4_call'.weights =
                      adjusted_weights(WEIGHTS, entry.predicted, entry.correct,
                                       LEARNING_CONFIG)
                /\ ci4_call'.weights = WEIGHTS'
                /\ ci4_call'.thresholds \in
                      (IF recalc_due(feedback_count', LEARNING_CONFIG)
                       THEN recalculate_thresholds(feedback_history', THRESHOLDS,
                                                   LEARNING_CONFIG)
                       ELSE {THRESHOLDS})
                /\ ci4_call'.thresholds = THRESHOLDS']_vars

\* The sixth event is at both boundaries (recalibration every event, sync
\* every third) and is the fifth sample for "photo": the pass moved the photo
\* threshold and the push carries the new threshold and the adjusted weights.
C39_Witness ==
    /\ LEARNING_CONFIG = EagerLearning
    /\ events_total = 6
    /\ feedback_count = 6
    /\ feedback_result.push_attempted
    /\ LastEntry(feedback_history).correct = "photo"
    /\ SampleCount(feedback_history, "photo") = 5
    /\ ci4_call.op = "update_model_weights"
    /\ ci4_call.thresholds["photo"] # DefaultThresholds["photo"]
    /\ ci4_call.thresholds = THRESHOLDS
    /\ ci4_call.weights = WEIGHTS

\* C40: an update request in dry-run mode changes nothing, whatever the
\* candidate: config.json, its backup, the runtime overrides, the parameters
\* the scoring engine reads, the learning state and the audit log are after
\* the request what they were before it.
C40_DryRunChangesNothing ==
    [][UpdateEndpoint(TRUE)
          => /\ config_file' = config_file
             /\ backup_file' = backup_file
             /\ runtime_overrides' = runtime_overrides
             /\ THRESHOLDS' = THRESHOLDS
             /\ WEIGHTS' = WEIGHTS
             /\ LEARNING_CONFIG' = LEARNING_CONFIG
             /\ audit_log' = audit_log
             /\ UNCHANGED engine_vars]_vars

\* A dry run of a candidate the schema rejects has returned, after a reset
\* that wrote config.json and the audit log; both are as the reset left them.
C40_Witness ==
    /\ store_call.op = "validate_safety"
    /\ store_call.outcome = "returned"
    /\ ~schema_valid(deep_merge(CurrentConfig, store_call.args.updates))
    /\ audit_log = <<"reset_to_defaults">>
    /\ config_file.state = "valid"
    /\ runtime_overrides = EmptyConfig
    /\ lock = "free"

====
